---- MODULE Spec2Model ----
(***************************************************************************)
(* Session control of the opssage realtime playground                      *)
(* (frontend/src/App.tsx): the capture state machine, the turn-detection   *)
(* override, the response tracker, the pending session.update queue and    *)
(* the ping action bridge.                                                 *)
(*                                                                         *)
(* Text is modelled by TLA+ strings, processed character by character, so  *)
(* that trimming, lower-casing and punctuation stripping are computed as   *)
(* the JavaScript computes them.  A nullable ref (string | null) is the    *)
(* empty tuple << >> for null and the one-element tuple <<v>> for a value. *)
(***************************************************************************)
EXTENDS Integers, Sequences, FiniteSets, TLC

\* ------------------------------------------------------------------------
\* Bounds of the model
\* ------------------------------------------------------------------------
MaxCycle == 3
MaxPending == 2
MaxInflight == 1
MaxOverlap == 3
MaxSolicited == 2
MaxText == 8

\* ------------------------------------------------------------------------
\* String helpers (String.prototype.trim, toLowerCase, replace, split, join)
\* ------------------------------------------------------------------------
UpperLetters == "ABCDEFGHIJKLMNOPQRSTUVWXYZ"
LowerLetters == "abcdefghijklmnopqrstuvwxyz"
Digits == "0123456789"

CharAt(s, i) == SubSeq(s, i, i)

Rest(s) == SubSeq(s, 2, Len(s))

IsSpace(c) == c \in {" ", "\t", "\n"}

LowerOrDigitChars ==
    {CharAt(LowerLetters, i) : i \in 1..Len(LowerLetters)} \cup
    {CharAt(Digits, i) : i \in 1..Len(Digits)}

UpperChars == {CharAt(UpperLetters, i) : i \in 1..Len(UpperLetters)}

LowerOfUpper ==
    [c \in UpperChars |->
        CharAt(LowerLetters, CHOOSE i \in 1..Len(UpperLetters) : CharAt(UpperLetters, i) = c)]

IsLowerOrDigit(c) == c \in LowerOrDigitChars

LowerChar(c) == IF c \in UpperChars THEN LowerOfUpper[c] ELSE c

RECURSIVE trimStart(_)
trimStart(s) ==
    IF Len(s) > 0 /\ IsSpace(CharAt(s, 1)) THEN trimStart(Rest(s)) ELSE s

RECURSIVE trimEnd(_)
trimEnd(s) ==
    IF Len(s) > 0 /\ IsSpace(CharAt(s, Len(s)))
    THEN trimEnd(SubSeq(s, 1, Len(s) - 1))
    ELSE s

trim(s) == trimEnd(trimStart(s))

RECURSIVE toLowerCase(_)
toLowerCase(s) ==
    IF Len(s) = 0 THEN "" ELSE LowerChar(CharAt(s, 1)) \o toLowerCase(Rest(s))

\* value.replace(/[^a-z0-9\s]/g, ' ')
RECURSIVE replaceNonAlnum(_)
replaceNonAlnum(s) ==
    IF Len(s) = 0 THEN ""
    ELSE (IF IsLowerOrDigit(CharAt(s, 1)) \/ IsSpace(CharAt(s, 1))
          THEN CharAt(s, 1) ELSE " ") \o replaceNonAlnum(Rest(s))

\* value.replace(/\s+/g, ' ')
RECURSIVE collapseSpaces(_)
collapseSpaces(s) ==
    IF Len(s) = 0 THEN ""
    ELSE IF IsSpace(CharAt(s, 1))
         THEN " " \o collapseSpaces(trimStart(s))
         ELSE CharAt(s, 1) \o collapseSpaces(Rest(s))

\* value.split(' ')
RECURSIVE splitAcc(_, _)
splitAcc(s, cur) ==
    IF Len(s) = 0 THEN <<cur>>
    ELSE IF CharAt(s, 1) = " "
         THEN <<cur>> \o splitAcc(Rest(s), "")
         ELSE splitAcc(Rest(s), cur \o CharAt(s, 1))

split(s) == splitAcc(s, "")

\* pieces.join(' ')
RECURSIVE join(_)
join(pieces) ==
    IF Len(pieces) = 0 THEN ""
    ELSE IF Len(pieces) = 1 THEN pieces[1]
    ELSE pieces[1] \o " " \o join(Tail(pieces))

\* Array.prototype.findIndex over the outcomes of the predicate, 1-based;
\* 0 stands for JavaScript's -1
findIndex(hits) ==
    IF \E i \in 1..Len(hits) : hits[i]
    THEN CHOOSE i \in 1..Len(hits) : hits[i] /\ \A j \in 1..(i - 1) : ~hits[j]
    ELSE 0


\* ------------------------------------------------------------------------
\* Phrase tables and the pure matching functions
\* ------------------------------------------------------------------------
TRIGGER_PHRASES == <<"hay model", "hey model", "hay, model", "hey, model">>

STOP_PHRASES == <<"model stop", "muddle stop", "model, stop", "muddle, stop">>

COMMON_SINGLE_WORDS ==
    {"hi", "hello", "hey", "thanks", "thank", "yes", "no", "ok", "okay",
     "test", "testing", "stop", "start", "help", "sure", "please"}

\* Array.prototype.includes
includes(list, value) == \E i \in 1..Len(list) : list[i] = value

\* Recognised utterances delivered in transcription events
Utterances ==
    {"Hey, Model!", "model stop", " my\n", "test", "Go,  now!", "...", "",
     "hey model this is the body"}

\* the body of normaliseUtterance, step by step
normaliseUtteranceSteps(value) ==
    LET lowered == toLowerCase(trim(value))
        cleaned == replaceNonAlnum(lowered)
    IN  trim(collapseSpaces(cleaned))

\* the normal forms of the delivered utterances and of their trimmed texts,
\* computed once
NormalForms ==
    [v \in Utterances \cup {trim(u) : u \in Utterances} |-> normaliseUtteranceSteps(v)]

normaliseUtterance(value) ==
    IF value \in DOMAIN NormalForms THEN NormalForms[value]
    ELSE normaliseUtteranceSteps(value)

isLikelyNoise_allowOne(normalized) ==
    IF normalized = "" THEN TRUE
    ELSE IF includes(TRIGGER_PHRASES, normalized) \/ includes(STOP_PHRASES, normalized)
         THEN FALSE
         ELSE LET parts == SelectSeq(split(normalized), LAMBDA p : p # "")
              IN  IF Len(parts) = 0 THEN TRUE ELSE FALSE

isLikelyNoise_dropTwo(normalized) ==
    IF normalized = "" THEN TRUE
    ELSE IF includes(TRIGGER_PHRASES, normalized) \/ includes(STOP_PHRASES, normalized)
         THEN FALSE
         ELSE LET parts == SelectSeq(split(normalized), LAMBDA p : p # "")
              IN  IF Len(parts) = 0 THEN TRUE
                  ELSE IF Len(parts) <= 2 THEN parts[1] \notin COMMON_SINGLE_WORDS
                  ELSE FALSE

isLikelyNoise(normalized) ==
    IF normalized = "" THEN TRUE
    ELSE IF includes(TRIGGER_PHRASES, normalized) \/ includes(STOP_PHRASES, normalized)
         THEN FALSE
         ELSE LET parts == SelectSeq(split(normalized), LAMBDA p : p # "")
              IN  IF Len(parts) = 0 THEN TRUE
                  ELSE IF Len(parts) = 1 THEN parts[1] \notin COMMON_SINGLE_WORDS
                  ELSE FALSE

\* ------------------------------------------------------------------------
\* Inputs of the environment
\* ------------------------------------------------------------------------
\* response.id of an inbound response event; "" stands for a missing,
\* non-string or empty id (all are falsy for `if (responseId)`)
ResponseIds == {"", "resp_A", "resp_B"}

\* error.param of an inbound error frame
ErrorParams == {"session.turn_detection.idle_timeout_ms", "response.modalities"}

\* A response body of the ping endpoint: the text and what JSON.parse makes
\* of it (kind "object": a JSON object, with or without a message field;
\* kind "string": the text itself, kept when it is not JSON)
Body(raw, kind, hasMessage, message) ==
    [raw |-> raw, kind |-> kind, hasMessage |-> hasMessage, message |-> message]

ResponseBodies ==
    {Body("{\"message\":\"you sent me 1\"}", "object", TRUE, "you sent me 1"),
     Body("{\"message\":\"\"}", "object", TRUE, ""),
     Body("{\"ok\":true}", "object", FALSE, ""),
     Body("", "object", FALSE, "")}

\* How the fetch of submitPingRequest settles: it throws (transport error)
\* or answers with a status (ok: 2xx) and a body
FetchOutcomes ==
    {[kind |-> "throw", ok |-> FALSE, body |-> Body("", "object", FALSE, "")],
     [kind |-> "response", ok |-> FALSE,
      body |-> Body("{\"message\":\"Unauthorized\"}", "object", TRUE, "Unauthorized")]}
    \cup {[kind |-> "response", ok |-> TRUE, body |-> b] : b \in ResponseBodies}

\* what submitPingRequest makes of the settled fetch: << >> is null, <<m>>
\* the string m
pingResult(o) ==
    IF o.kind = "throw" THEN << >>
    ELSE IF ~o.ok THEN << >>
    ELSE IF o.body.kind = "object" /\ o.body.hasMessage THEN <<o.body.message>>
    ELSE IF o.body.kind = "string" THEN <<o.body.raw>>
    ELSE IF trim(o.body.raw) # "" THEN <<o.body.raw>>
    ELSE <<"Ping succeeded.">>

\* what submitPingRequest resolves to
PingResults == {pingResult(o) : o \in FetchOutcomes}

\* config.apiBaseUrl and the bearer token as submitPingRequest finds them:
\* TRUE when set, FALSE when empty
Prerequisites == [apiBaseUrl : BOOLEAN, bearer : BOOLEAN]

Configured == [apiBaseUrl |-> TRUE, bearer |-> TRUE]

MANUAL_TURN_DETECTION ==
    [type |-> "server_vad", threshold |-> "0.5", prefix_padding_ms |-> 300,
     silence_duration_ms |-> 200, idle_timeout_ms |-> 6000,
     create_response |-> FALSE, interrupt_response |-> FALSE]

\* a turn-detection patch other than the override, for direct calls of
\* sendSessionUpdate
PERMISSIVE_TURN_DETECTION ==
    [MANUAL_TURN_DETECTION EXCEPT !.create_response = TRUE, !.interrupt_response = TRUE]

SessionPatches ==
    {[turn_detection |-> MANUAL_TURN_DETECTION], [turn_detection |-> PERMISSIVE_TURN_DETECTION]}

\* ------------------------------------------------------------------------
\* State
\* ------------------------------------------------------------------------
VARIABLES
    connection,             \* connectionRef.current # null
    dataChannel,            \* "none": dataChannelRef.current = null; else its readyState
                            \* ("connecting" or "open")
    lastUserUtterance,      \* lastUserUtteranceRef
    mode,                   \* modeRef
    testTranscript,         \* testTranscriptRef
    turnDetectionDisabled,  \* turnDetectionDisabledRef
    pendingSessionUpdates,  \* pendingSessionUpdatesRef
    currentResponseId,      \* currentResponseIdRef
    allowNextResponse,      \* allowNextResponseRef
    originalTurnDetection,  \* originalTurnDetectionRef of the earlier App variant
                            \*   (src/unnamed/part_002); App.tsx has no such ref
    capture,                \* the capture refs of the earlier variant: captureStateRef,
                            \*   captureBufferRef, pendingCapturedTextRef,
                            \*   transcriptionResponseIdRef, transcriptionBufferRef
    solicited,              \* history, earlier variant: response.create frames sent on
                            \*   the channel whose response.created has not arrived
    inflight,               \* submitPingRequest calls awaiting their fetch
    out,                    \* frames passed to dc.send by the last step, in order
    http,                   \* ping requests issued by the last step
    bridge,                 \* calls of submitPingRequest by the last step: the text
                            \*   and the prerequisites the call found
    triggerSeen,            \* history: some delivered utterance normalised to a trigger phrase
    frags,                  \* history: utterances delivered since test mode was entered,
                            \*   an immediate repeat counted once
    lastInput,              \* history: the last utterance given to handleRecognizedText
    disableCalled,          \* history: disableAutoResponses ran since the last rejection or stop
    staleId,                \* history: the tracked response id was learned before the
                            \*   last stopVoiceSession
    note                    \* history: what the last step was, when it delivered an utterance
                            \*   ("dup": a repeat of the previous one; else the mode it was
                            \*   delivered in), called disableAutoResponses directly
                            \*   ("first", "again") or sendRealtimeInstruction
                            \*   ("instruction"), or was stopVoiceSession ("stop again":
                            \*   right after another one; "stop in test": in test mode;
                            \*   else "stop") or an unhandled frame ("ignored"); ""
                            \*   otherwise

progVars ==
    <<connection, dataChannel, lastUserUtterance, mode, testTranscript,
      turnDetectionDisabled, pendingSessionUpdates, currentResponseId,
      allowNextResponse, originalTurnDetection, capture, inflight>>

vars ==
    <<connection, dataChannel, lastUserUtterance, mode, testTranscript,
      turnDetectionDisabled, pendingSessionUpdates, currentResponseId,
      allowNextResponse, originalTurnDetection, capture, solicited, inflight, out,
      http, bridge,
      triggerSeen, frags, lastInput,
      disableCalled, staleId, note>>

\* the refs as one record, with nothing sent yet by the step that starts;
\* apiBaseUrl and bearer are what submitPingRequest will read (set by the
\* step that delivers an utterance)
Cur ==
    [connection |-> connection, dataChannel |-> dataChannel,
     lastUserUtterance |-> lastUserUtterance, mode |-> mode,
     testTranscript |-> testTranscript,
     turnDetectionDisabled |-> turnDetectionDisabled,
     pendingSessionUpdates |-> pendingSessionUpdates,
     currentResponseId |-> currentResponseId,
     allowNextResponse |-> allowNextResponse,
     originalTurnDetection |-> originalTurnDetection, capture |-> capture,
     solicited |-> solicited, inflight |-> inflight,
     out |-> << >>, http |-> << >>, bridge |-> << >>,
     apiBaseUrl |-> TRUE, bearer |-> TRUE]

Commit(s) ==
    /\ connection' = s.connection
    /\ dataChannel' = s.dataChannel
    /\ lastUserUtterance' = s.lastUserUtterance
    /\ mode' = s.mode
    /\ testTranscript' = s.testTranscript
    /\ turnDetectionDisabled' = s.turnDetectionDisabled
    /\ pendingSessionUpdates' = s.pendingSessionUpdates
    /\ currentResponseId' = s.currentResponseId
    /\ allowNextResponse' = s.allowNextResponse
    /\ originalTurnDetection' = s.originalTurnDetection
    /\ capture' = s.capture
    /\ solicited' = s.solicited
    /\ inflight' = s.inflight
    /\ out' = s.out
    /\ http' = s.http
    /\ bridge' = s.bridge

\* ------------------------------------------------------------------------
\* Operations of App.tsx, as functions from the refs to the refs
\* ------------------------------------------------------------------------
\* dc.send(JSON.stringify(payload))
dcSend(s, payload) == [s EXCEPT !.out = Append(@, payload)]

resetCapture_keepMode(s) ==
    [s EXCEPT !.lastUserUtterance = << >>, !.allowNextResponse = FALSE]

resetCapture_keepLast(s) ==
    [s EXCEPT !.mode = "normal", !.testTranscript = << >>,
              !.allowNextResponse = FALSE]

resetCapture(s) ==
    [s EXCEPT !.mode = "normal", !.testTranscript = << >>,
              !.lastUserUtterance = << >>, !.allowNextResponse = FALSE]

sendRealtimeInstruction_queues(s, text, exact) ==
    LET instructionPrefix == "Respond only in English."
        instructions == IF exact
                        THEN instructionPrefix \o " Say exactly: \"" \o text \o "\"."
                        ELSE instructionPrefix \o " " \o text
        payload == [type |-> "response.create",
                    response |-> [modalities |-> <<"audio", "text">>,
                                  instructions |-> instructions,
                                  conversation |-> "none"]]
        s1 == [s EXCEPT !.allowNextResponse = TRUE]
    IN  IF s.dataChannel = "open" THEN dcSend(s1, payload)
        ELSE [s1 EXCEPT !.pendingSessionUpdates = Append(@, payload)]

sendRealtimeInstruction_noFlag(s, text, exact) ==
    LET instructionPrefix == "Respond only in English."
        instructions == IF exact
                        THEN instructionPrefix \o " Say exactly: \"" \o text \o "\"."
                        ELSE instructionPrefix \o " " \o text
        payload == [type |-> "response.create",
                    response |-> [modalities |-> <<"audio", "text">>,
                                  instructions |-> instructions,
                                  conversation |-> "none"]]
    IN  IF s.dataChannel = "open" THEN dcSend(s, payload) ELSE s

sendRealtimeInstruction(s, text, exact) ==
    LET instructionPrefix == "Respond only in English."
        instructions == IF exact
                        THEN instructionPrefix \o " Say exactly: \"" \o text \o "\"."
                        ELSE instructionPrefix \o " " \o text
        payload == [type |-> "response.create",
                    response |-> [modalities |-> <<"audio", "text">>,
                                  instructions |-> instructions,
                                  conversation |-> "none"]]
        s1 == [s EXCEPT !.allowNextResponse = TRUE]
    IN  IF s.dataChannel = "open" THEN dcSend(s1, payload) ELSE s1

sendSessionUpdate(s, sessionPatch) ==
    LET payload == [type |-> "session.update", session |-> sessionPatch]
    IN  IF s.dataChannel = "open"
        THEN dcSend(s, payload)
        ELSE [s EXCEPT !.pendingSessionUpdates = Append(@, payload)]

\* responseId: << >> for an omitted or null argument
sendCancelActiveResponse_keepTracked(s, responseId) ==
    IF s.dataChannel # "open" THEN s
    ELSE LET targetId == IF responseId # << >> THEN responseId ELSE s.currentResponseId
         IN  IF targetId = << >> \/ targetId = <<"">> THEN s
             ELSE dcSend(s, [type |-> "response.cancel", response_id |-> targetId[1]])

sendCancelActiveResponse(s, responseId) ==
    IF s.dataChannel # "open" THEN s
    ELSE LET targetId == IF responseId # << >> THEN responseId ELSE s.currentResponseId
         IN  IF targetId = << >> \/ targetId = <<"">> THEN s
             ELSE LET s1 == dcSend(s, [type |-> "response.cancel", response_id |-> targetId[1]])
                  IN  IF s1.currentResponseId = targetId
                      THEN [s1 EXCEPT !.currentResponseId = << >>]
                      ELSE s1

disableAutoResponses_noGuard(s) ==
    [sendSessionUpdate(s, [turn_detection |-> MANUAL_TURN_DETECTION])
        EXCEPT !.turnDetectionDisabled = TRUE]

disableAutoResponses(s) ==
    IF s.turnDetectionDisabled THEN s
    ELSE [sendSessionUpdate(s, [turn_detection |-> MANUAL_TURN_DETECTION])
            EXCEPT !.turnDetectionDisabled = TRUE]

\* the continuation of exitTestMode after `await submitPingRequest`; the
\* empty string is falsy
pingContinuation_silentFailure(s, result) ==
    IF result # << >> /\ result # <<"">>
    THEN sendRealtimeInstruction(s, "Ping response: " \o result[1], TRUE)
    ELSE s

pingContinuation_answersTwice(s, result) ==
    LET s1 == IF result # << >> /\ result # <<"">>
              THEN sendRealtimeInstruction(s, "Ping response: " \o result[1], TRUE)
              ELSE sendRealtimeInstruction(s, "Ping request failed.", TRUE)
    IN  IF s.inflight > 0 THEN sendRealtimeInstruction(s1, "Ping request failed.", TRUE)
        ELSE s1

pingContinuation(s, result) ==
    IF result # << >> /\ result # <<"">>
    THEN sendRealtimeInstruction(s, "Ping response: " \o result[1], TRUE)
    ELSE sendRealtimeInstruction(s, "Ping request failed.", TRUE)

\* submitPingRequest up to its fetch. With a prerequisite missing it returns
\* null at once, and the continuation of exitTestMode runs as a microtask,
\* before any other event; otherwise the request goes out and the call
\* stays pending until PingResolves
submitPingRequest(s, testText) ==
    LET s1 == [s EXCEPT !.bridge = Append(@, [text |-> testText,
                                              apiBaseUrl |-> s.apiBaseUrl,
                                              bearer |-> s.bearer])]
    IN  IF ~s.apiBaseUrl THEN pingContinuation(s1, << >>)
        ELSE IF ~s.bearer THEN pingContinuation(s1, << >>)
        ELSE [s1 EXCEPT !.http = Append(@, [url |-> "/secure/ping", method |-> "GET",
                                            number |-> trim(testText)]),
                        !.inflight = @ + 1]

respondNormally(s, userText) ==
    sendRealtimeInstruction(s,
        "The user said: " \o userText \o ". Respond helpfully and conversationally.", FALSE)

enterTestMode_ackTwice(s, rawUtterance) ==
    LET s1 == [s EXCEPT !.mode = "test", !.testTranscript = <<rawUtterance>>]
        s2 == disableAutoResponses(s1)
        s3 == sendCancelActiveResponse(s2, << >>)
        s4 == sendRealtimeInstruction(s3, "what do you want to test", TRUE)
    IN  sendRealtimeInstruction(s4, "what do you want to test", TRUE)

enterTestMode_emptyBuffer(s, rawUtterance) ==
    LET s1 == [s EXCEPT !.mode = "test", !.testTranscript = << >>]
        s2 == disableAutoResponses(s1)
        s3 == sendCancelActiveResponse(s2, << >>)
    IN  sendRealtimeInstruction(s3, "what do you want to test", TRUE)

enterTestMode(s, rawUtterance) ==
    LET s1 == [s EXCEPT !.mode = "test", !.testTranscript = <<rawUtterance>>]
        s2 == disableAutoResponses(s1)
        s3 == sendCancelActiveResponse(s2, << >>)
    IN  sendRealtimeInstruction(s3, "what do you want to test", TRUE)

appendTestTranscript(s, rawUtterance) ==
    [s EXCEPT !.testTranscript = Append(@, rawUtterance)]

\* the captured text exitTestMode computes from the buffer
capturedTranscript_keepStop(rawPieces) ==
    LET normalizedPieces == [i \in 1..Len(rawPieces) |-> trim(rawPieces[i])]
        bodyStartIndex == findIndex([i \in 1..Len(normalizedPieces) |->
                              includes(TRIGGER_PHRASES, normaliseUtterance(normalizedPieces[i]))])
        effectivePieces == IF bodyStartIndex = 0 THEN normalizedPieces
                           ELSE SubSeq(normalizedPieces, bodyStartIndex + 1, Len(normalizedPieces))
    IN  trim(collapseSpaces(join(effectivePieces)))

capturedTranscript_normalised(rawPieces) ==
    LET normalizedPieces == [i \in 1..Len(rawPieces) |-> normaliseUtterance(trim(rawPieces[i]))]
        bodyStartIndex == findIndex([i \in 1..Len(normalizedPieces) |->
                              includes(TRIGGER_PHRASES, normaliseUtterance(normalizedPieces[i]))])
        effectivePieces == IF bodyStartIndex = 0 THEN normalizedPieces
                           ELSE SubSeq(normalizedPieces, bodyStartIndex + 1, Len(normalizedPieces))
        stopIndex == findIndex([i \in 1..Len(effectivePieces) |->
                         includes(STOP_PHRASES, normaliseUtterance(effectivePieces[i]))])
        withoutStop == IF stopIndex = 0 THEN effectivePieces
                       ELSE SubSeq(effectivePieces, 1, stopIndex - 1)
    IN  trim(collapseSpaces(join(withoutStop)))

capturedTranscript(rawPieces) ==
    LET normalizedPieces == [i \in 1..Len(rawPieces) |-> trim(rawPieces[i])]
        bodyStartIndex == findIndex([i \in 1..Len(normalizedPieces) |->
                              includes(TRIGGER_PHRASES, normaliseUtterance(normalizedPieces[i]))])
        effectivePieces == IF bodyStartIndex = 0 THEN normalizedPieces
                           ELSE SubSeq(normalizedPieces, bodyStartIndex + 1, Len(normalizedPieces))
        stopIndex == findIndex([i \in 1..Len(effectivePieces) |->
                         includes(STOP_PHRASES, normaliseUtterance(effectivePieces[i]))])
        withoutStop == IF stopIndex = 0 THEN effectivePieces
                       ELSE SubSeq(effectivePieces, 1, stopIndex - 1)
    IN  trim(collapseSpaces(join(withoutStop)))

exitTestMode_keepBuffer(s) ==
    LET transcript == capturedTranscript(s.testTranscript)
        s1 == [s EXCEPT !.mode = "normal"]
    IN  IF transcript # "" THEN submitPingRequest(s1, transcript) ELSE s1

exitTestMode_alwaysSubmit(s) ==
    LET transcript == capturedTranscript(s.testTranscript)
        s1 == [s EXCEPT !.mode = "normal", !.testTranscript = << >>]
    IN  submitPingRequest(s1, transcript)

exitTestMode_keepMode(s) ==
    LET transcript == capturedTranscript(s.testTranscript)
        s1 == [s EXCEPT !.testTranscript = << >>]
        s2 == IF transcript # "" THEN submitPingRequest(s1, transcript) ELSE s1
    IN  [s2 EXCEPT !.mode = IF transcript # "" THEN "test" ELSE "normal"]

exitTestMode(s) ==
    LET transcript == capturedTranscript(s.testTranscript)
        s1 == [s EXCEPT !.mode = "normal", !.testTranscript = << >>]
    IN  IF transcript # "" THEN submitPingRequest(s1, transcript) ELSE s1

\* TRIGGER_PHRASES.includes(normalized), the test that opens a cycle
matchesTrigger_prefix(normalized) ==
    \E i \in 1..Len(TRIGGER_PHRASES) :
        /\ Len(normalized) >= Len(TRIGGER_PHRASES[i])
        /\ SubSeq(normalized, 1, Len(TRIGGER_PHRASES[i])) = TRIGGER_PHRASES[i]

matchesTrigger(normalized) == includes(TRIGGER_PHRASES, normalized)

\* STOP_PHRASES.includes(normalized), the test that closes a cycle
matchesStop(normalized) == includes(STOP_PHRASES, normalized)

\* the duplicate-utterance guard: previous === text
isDuplicate_never(previous, text) == FALSE

isDuplicate(previous, text) == previous = <<text>>

handleRecognizedText_forgetsTrigger(s, utterance) ==
    LET rawUtterance == utterance
        text == trim(rawUtterance)
    IN  IF rawUtterance = "" \/ text = "" THEN s
        ELSE IF isDuplicate(s.lastUserUtterance, text) THEN s
        ELSE LET s1 == [s EXCEPT !.lastUserUtterance = <<text>>]
                 normalized == normaliseUtterance(text)
             IN  IF s1.mode = "test"
                 THEN LET s2 == appendTestTranscript(s1, rawUtterance)
                      IN  IF matchesStop(normalized) THEN exitTestMode(s2) ELSE s2
                 ELSE IF matchesTrigger(normalized) THEN enterTestMode(s, rawUtterance)
                 ELSE IF isLikelyNoise(normalized) THEN s1
                 ELSE respondNormally(s1, text)

handleRecognizedText_noiseFirst(s, utterance) ==
    LET rawUtterance == utterance
        text == trim(rawUtterance)
    IN  IF rawUtterance = "" \/ text = "" THEN s
        ELSE IF isDuplicate(s.lastUserUtterance, text) THEN s
        ELSE LET s1 == [s EXCEPT !.lastUserUtterance = <<text>>]
                 normalized == normaliseUtterance(text)
             IN  IF isLikelyNoise(normalized) THEN s1
                 ELSE IF s1.mode = "test"
                 THEN LET s2 == appendTestTranscript(s1, rawUtterance)
                      IN  IF matchesStop(normalized) THEN exitTestMode(s2) ELSE s2
                 ELSE IF matchesTrigger(normalized) THEN enterTestMode(s1, rawUtterance)
                 ELSE respondNormally(s1, text)

handleRecognizedText(s, utterance) ==
    LET rawUtterance == utterance
        text == trim(rawUtterance)
    IN  IF rawUtterance = "" \/ text = "" THEN s
        ELSE IF isDuplicate(s.lastUserUtterance, text) THEN s
        ELSE LET s1 == [s EXCEPT !.lastUserUtterance = <<text>>]
                 normalized == normaliseUtterance(text)
             IN  IF s1.mode = "test"
                 THEN LET s2 == appendTestTranscript(s1, rawUtterance)
                      IN  IF matchesStop(normalized) THEN exitTestMode(s2) ELSE s2
                 ELSE IF matchesTrigger(normalized) THEN enterTestMode(s1, rawUtterance)
                 ELSE IF isLikelyNoise(normalized) THEN s1
                 ELSE respondNormally(s1, text)

\* An inbound payload after JSON.parse: isObject is FALSE for a frame that
\* was not JSON (kept as a string) or parsed to a non-object
Payload(isObject, type, id, param, transcript) ==
    [isObject |-> isObject, type |-> type, id |-> id, param |-> param,
     transcript |-> transcript]

startsWith_whole(str, prefix) == str = prefix

startsWith(str, prefix) ==
    Len(str) >= Len(prefix) /\ SubSeq(str, 1, Len(prefix)) = prefix

handleRealtimeEvent_unknownResets(s, payload) ==
    IF ~payload.isObject THEN resetCapture(s)
    ELSE IF payload.type = "error"
         THEN IF startsWith(payload.param, "session.turn_detection")
              THEN [s EXCEPT !.turnDetectionDisabled = FALSE]
              ELSE s
    ELSE IF payload.type = "session.created" THEN disableAutoResponses(s)
    ELSE IF payload.type = "response.created"
         THEN LET s1 == IF payload.id # ""
                        THEN [s EXCEPT !.currentResponseId = <<payload.id>>]
                        ELSE s
              IN  IF s1.allowNextResponse
                  THEN [s1 EXCEPT !.allowNextResponse = FALSE]
                  ELSE s1
    ELSE IF payload.type = "response.done"
         THEN IF payload.id # "" /\ s.currentResponseId = <<payload.id>>
              THEN [s EXCEPT !.currentResponseId = << >>]
              ELSE s
    ELSE IF payload.type = "conversation.item.input_audio_transcription.completed"
         THEN IF payload.transcript # ""
              THEN handleRecognizedText(s, payload.transcript)
              ELSE s
    ELSE resetCapture(s)

handleRealtimeEvent_doneClearsAny(s, payload) ==
    IF ~payload.isObject THEN s
    ELSE IF payload.type = "error"
         THEN IF startsWith(payload.param, "session.turn_detection")
              THEN [s EXCEPT !.turnDetectionDisabled = FALSE]
              ELSE s
    ELSE IF payload.type = "session.created" THEN disableAutoResponses(s)
    ELSE IF payload.type = "response.created"
         THEN LET s1 == IF payload.id # ""
                        THEN [s EXCEPT !.currentResponseId = <<payload.id>>]
                        ELSE s
              IN  IF s1.allowNextResponse
                  THEN [s1 EXCEPT !.allowNextResponse = FALSE]
                  ELSE s1
    ELSE IF payload.type = "response.done"
         THEN IF payload.id # ""
              THEN [s EXCEPT !.currentResponseId = << >>]
              ELSE s
    ELSE IF payload.type = "conversation.item.input_audio_transcription.completed"
         THEN IF payload.transcript # ""
              THEN handleRecognizedText(s, payload.transcript)
              ELSE s
    ELSE s

handleRealtimeEvent(s, payload) ==
    IF ~payload.isObject THEN s
    ELSE IF payload.type = "error"
         THEN IF startsWith(payload.param, "session.turn_detection")
              THEN [s EXCEPT !.turnDetectionDisabled = FALSE]
              ELSE s
    ELSE IF payload.type = "session.created" THEN disableAutoResponses(s)
    ELSE IF payload.type = "response.created"
         THEN LET s1 == IF payload.id # ""
                        THEN [s EXCEPT !.currentResponseId = <<payload.id>>]
                        ELSE s
              IN  IF s1.allowNextResponse
                  THEN [s1 EXCEPT !.allowNextResponse = FALSE]
                  ELSE s1
    ELSE IF payload.type = "response.done"
         THEN IF payload.id # "" /\ s.currentResponseId = <<payload.id>>
              THEN [s EXCEPT !.currentResponseId = << >>]
              ELSE s
    ELSE IF payload.type = "conversation.item.input_audio_transcription.completed"
         THEN IF payload.transcript # ""
              THEN handleRecognizedText(s, payload.transcript)
              ELSE s   \* no transcript and no item: extractTextValues yields no segment
    ELSE s

stopVoiceSession_toggleFlag(s) ==
    LET s1 == [s EXCEPT !.connection = FALSE, !.dataChannel = "none",
                        !.pendingSessionUpdates = << >>]
    IN  [resetCapture(s1) EXCEPT !.turnDetectionDisabled = ~@]

stopVoiceSession(s) ==
    LET s1 == [s EXCEPT !.connection = FALSE, !.dataChannel = "none",
                        !.pendingSessionUpdates = << >>]
    IN  [resetCapture(s1) EXCEPT !.turnDetectionDisabled = FALSE]

\* the loop of flushPendingSessionUpdates, one iteration per call
RECURSIVE flushPendingSessionUpdates_lifo(_)
flushPendingSessionUpdates_lifo(s) ==
    IF Len(s.pendingSessionUpdates) > 0 /\ s.dataChannel = "open"
    THEN flushPendingSessionUpdates_lifo(
             dcSend([s EXCEPT !.pendingSessionUpdates = SubSeq(@, 1, Len(@) - 1)],
                    s.pendingSessionUpdates[Len(s.pendingSessionUpdates)]))
    ELSE s

RECURSIVE flushPendingSessionUpdates(_)
flushPendingSessionUpdates(s) ==
    IF Len(s.pendingSessionUpdates) > 0 /\ s.dataChannel = "open"
    THEN flushPendingSessionUpdates(
             dcSend([s EXCEPT !.pendingSessionUpdates = Tail(@)],
                    Head(s.pendingSessionUpdates)))
    ELSE s

onopen_greetsFirst(s) ==
    LET s1 == flushPendingSessionUpdates(s)
        s2 == sendRealtimeInstruction(s1, "Hello!", TRUE)
    IN  disableAutoResponses(s2)

\* dataChannel.onopen
onopen(s) ==
    LET s1 == flushPendingSessionUpdates(s)
        s2 == disableAutoResponses(s1)
    IN  sendRealtimeInstruction(s2, "Hello!", TRUE)

\* ------------------------------------------------------------------------
\* Initial state: the refs as declared in App
\* ------------------------------------------------------------------------
Init ==
    /\ connection = FALSE
    /\ dataChannel = "none"
    /\ lastUserUtterance = << >>
    /\ mode = "normal"
    /\ testTranscript = << >>
    /\ turnDetectionDisabled = FALSE
    /\ pendingSessionUpdates = << >>
    /\ currentResponseId = << >>
    /\ allowNextResponse = FALSE
    /\ originalTurnDetection = << >>
    /\ capture = [state |-> "idle", buffer |-> "", pendingCapturedText |-> "",
                  transcriptionResponseId |-> << >>, transcriptionBuffer |-> ""]
    /\ solicited = 0
    /\ inflight = 0
    /\ out = << >>
    /\ http = << >>
    /\ bridge = << >>
    /\ triggerSeen = FALSE
    /\ frags = << >>
    /\ lastInput = << >>
    /\ disableCalled = FALSE
    /\ staleId = FALSE
    /\ note = ""

\* a step that is not a delivery of an utterance
\* the tracked id is as old as it was, while there is one
KeepsId == staleId' = (staleId /\ currentResponseId' # << >>)

Plain == note' = "" /\ UNCHANGED <<triggerSeen, frags, lastInput>> /\ KeepsId

\* a protocol rejection of the override: an error frame naming the turn-detection field
IsRejection(param) == startsWith(param, "session.turn_detection")

\* ------------------------------------------------------------------------
\* Steps of the running program
\* ------------------------------------------------------------------------
\* handleTalk with no session: the synchronous part of startVoiceSession
StartVoiceSession ==
    /\ ~connection
    /\ Commit([Cur EXCEPT !.connection = TRUE, !.dataChannel = "connecting"])
    /\ Plain
    /\ UNCHANGED disableCalled

\* handleTalk during a session, a failed or disconnected peer connection,
\* the catch block of startVoiceSession, or the unmount effect
StopVoiceSession ==
    /\ Commit(stopVoiceSession(Cur))
    /\ frags' = << >>
    /\ lastInput' = << >>
    /\ disableCalled' = FALSE
    /\ note' = IF note \in {"stop", "stop in test", "stop again"} THEN "stop again"
               ELSE IF mode = "test" THEN "stop in test"
               ELSE "stop"
    /\ staleId' = (currentResponseId # << >>)
    /\ UNCHANGED triggerSeen

ChannelOpens ==
    /\ dataChannel = "connecting"
    /\ Commit(onopen([Cur EXCEPT !.dataChannel = "open"]))
    /\ Plain
    /\ disableCalled' = TRUE

\* dataChannel.onmessage: messages are delivered on an open channel only
ErrorEventOf(param) ==
    /\ dataChannel = "open"
    /\ Commit(handleRealtimeEvent(Cur, Payload(TRUE, "error", "", param, "")))
    /\ Plain
    /\ disableCalled' = (disableCalled /\ ~IsRejection(param))

ErrorEvent == \E param \in ErrorParams : ErrorEventOf(param)

SessionCreated ==
    /\ dataChannel = "open"
    /\ Commit(handleRealtimeEvent(Cur, Payload(TRUE, "session.created", "", "", "")))
    /\ Plain
    /\ disableCalled' = TRUE

ResponseCreatedOf(id) ==
    /\ dataChannel = "open"
    /\ Commit(handleRealtimeEvent(Cur, Payload(TRUE, "response.created", id, "", "")))
    /\ note' = ""
    /\ UNCHANGED <<triggerSeen, frags, lastInput>>
    /\ staleId' = (staleId /\ id = "")
    /\ UNCHANGED disableCalled

ResponseCreated == \E id \in ResponseIds : ResponseCreatedOf(id)

ResponseDoneOf(id) ==
    /\ dataChannel = "open"
    /\ Commit(handleRealtimeEvent(Cur, Payload(TRUE, "response.done", id, "", "")))
    /\ Plain
    /\ UNCHANGED disableCalled

ResponseDone == \E id \in ResponseIds : ResponseDoneOf(id)

\* limit: the number of submitPingRequest calls that may be pending at once
TranscriptionWithin(u, c, limit) ==
    /\ dataChannel = "open"
    /\ mode = "test" => Len(frags) < MaxCycle
    /\ LET s == handleRealtimeEvent([Cur EXCEPT !.apiBaseUrl = c.apiBaseUrl,
                                                !.bearer = c.bearer],
                    Payload(TRUE, "conversation.item.input_audio_transcription.completed",
                            "", "", u))
       IN  /\ s.inflight <= limit
           /\ Commit(s)
    /\ triggerSeen' = (triggerSeen \/
                         (u # "" /\ \E i \in 1..Len(TRIGGER_PHRASES) :
                                        normaliseUtterance(u) = TRIGGER_PHRASES[i]))
    /\ frags' = IF u = "" THEN frags
                ELSE IF mode # "test" THEN << >>
                ELSE IF lastInput # << >> /\ trim(lastInput[1]) = trim(u) THEN frags
                ELSE Append(frags, u)
    /\ lastInput' = IF u = "" THEN lastInput ELSE <<u>>
    /\ note' = IF u = "" THEN ""
               ELSE IF lastInput # << >> /\ trim(lastInput[1]) = trim(u) THEN "dup"
               ELSE mode
    \* enterTestMode calls disableAutoResponses
    /\ disableCalled' = (disableCalled \/ (mode = "normal" /\ mode' = "test"))
    /\ KeepsId

TranscriptionOf(u, c) == TranscriptionWithin(u, c, MaxInflight)

\* the utterances that close a cycle when delivered in test mode
StopUtterances ==
    {u \in Utterances : \E i \in 1..Len(STOP_PHRASES) : normaliseUtterance(u) = STOP_PHRASES[i]}

\* The prerequisites are read by submitPingRequest only, which is reached
\* only by a stop phrase delivered in test mode: every other delivery is
\* taken with them set
Transcription ==
    \E u \in Utterances, c \in Prerequisites :
        /\ (mode = "test" /\ u \in StopUtterances) \/ c = Configured
        /\ TranscriptionOf(u, c)

\* a frame that is not JSON (kept as a string) or a payload that is not an
\* object, and an object of a type handleRealtimeEvent has no branch for
UnhandledPayloads ==
    {Payload(FALSE, "", "", "", ""), Payload(TRUE, "response.audio.delta", "", "", "")}

OtherEventOf(p) ==
    /\ dataChannel = "open"
    /\ Commit(handleRealtimeEvent(Cur, p))
    /\ note' = "ignored"
    /\ UNCHANGED <<triggerSeen, frags, lastInput, disableCalled>>
    /\ KeepsId

OtherEvent == \E p \in UnhandledPayloads : OtherEventOf(p)

\* the fetch of a pending submitPingRequest settles
PingResolvesOf(r) ==
    /\ inflight > 0
    /\ Commit(pingContinuation([Cur EXCEPT !.inflight = @ - 1], r))
    /\ Plain
    /\ UNCHANGED disableCalled

PingResolves == \E o \in FetchOutcomes : PingResolvesOf(pingResult(o))

Next ==
    \/ StartVoiceSession
    \/ StopVoiceSession
    \/ ChannelOpens
    \/ ErrorEvent
    \/ SessionCreated
    \/ ResponseCreated
    \/ ResponseDone
    \/ Transcription
    \/ OtherEvent
    \/ PingResolves

Spec == Init /\ [][Next]_vars

\* ------------------------------------------------------------------------
\* The controller operations called directly, in any state of the channel
\* ------------------------------------------------------------------------
CallDisableAutoResponses ==
    /\ Len(pendingSessionUpdates) < MaxPending
    /\ Commit(disableAutoResponses(Cur))
    /\ note' = IF disableCalled THEN "again" ELSE "first"
    /\ disableCalled' = TRUE
    /\ UNCHANGED <<triggerSeen, frags, lastInput>>
    /\ KeepsId

CallSendSessionUpdateOf(patch) ==
    /\ Len(pendingSessionUpdates) < MaxPending
    /\ Commit(sendSessionUpdate(Cur, patch))
    /\ Plain
    /\ UNCHANGED disableCalled

CallSendSessionUpdate == \E patch \in SessionPatches : CallSendSessionUpdateOf(patch)

CallSendCancelActiveResponseOf(id) ==
    /\ Commit(sendCancelActiveResponse(Cur, id))
    /\ Plain
    /\ UNCHANGED disableCalled

CallSendCancelActiveResponse ==
    \E id \in {<< >>, <<"resp_A">>, <<"resp_B">>} : CallSendCancelActiveResponseOf(id)

CallSendRealtimeInstructionOf(text, exact) ==
    /\ Len(pendingSessionUpdates) < MaxPending
    /\ Commit(sendRealtimeInstruction(Cur, text, exact))
    /\ note' = "instruction"
    /\ UNCHANGED <<triggerSeen, frags, lastInput, disableCalled>>
    /\ KeepsId

CallSendRealtimeInstruction ==
    \E exact \in BOOLEAN : CallSendRealtimeInstructionOf("Ping request failed.", exact)

NextUnit ==
    \/ StartVoiceSession
    \/ StopVoiceSession
    \/ ChannelOpens
    \/ ErrorEvent
    \/ SessionCreated
    \/ ResponseCreated
    \/ ResponseDone
    \/ CallDisableAutoResponses
    \/ CallSendSessionUpdate
    \/ CallSendCancelActiveResponse
    \/ CallSendRealtimeInstruction

SpecUnit == Init /\ [][NextUnit]_vars

\* ------------------------------------------------------------------------
\* The program with cycles that overlap: the utterances of a cycle with
\* a non-empty text, and up to MaxOverlap calls of submitPingRequest
\* pending at once
\* ------------------------------------------------------------------------
OverlapUtterances == {"Hey, Model!", "Go,  now!", "model stop"}

OverlappingTranscription ==
    \E u \in OverlapUtterances, c \in Prerequisites :
        /\ (mode = "test" /\ u \in StopUtterances) \/ c = Configured
        /\ TranscriptionWithin(u, c, MaxOverlap)

NextOverlap ==
    \/ StartVoiceSession
    \/ StopVoiceSession
    \/ ChannelOpens
    \/ ErrorEvent
    \/ SessionCreated
    \/ ResponseCreated
    \/ ResponseDone
    \/ OverlappingTranscription
    \/ OtherEvent
    \/ PingResolves

SpecOverlap == Init /\ [][NextOverlap]_vars

\* ------------------------------------------------------------------------
\* The earlier App variant of src/unnamed/part_002 (lines 409-1538), which
\* restores automatic responses.  Its sendSessionUpdate and
\* flushPendingSessionUpdates are, line for line, those of App.tsx; its
\* capture refs (captureStateRef, captureBufferRef, the transcription refs)
\* are read by none of the operations below and are left out.
\* ------------------------------------------------------------------------
\* the literal of disableAutoResponses in the variant
EarlierManualTurnDetection ==
    [type |-> "server_vad", threshold |-> "0.5", prefix_padding_ms |-> 300,
     silence_duration_ms |-> 200, idle_timeout_ms |-> "null",
     create_response |-> FALSE, interrupt_response |-> FALSE]

\* the literal of restoreAutoResponses when nothing was captured
EarlierDefaultTurnDetection ==
    [type |-> "server_vad", threshold |-> "0.5", prefix_padding_ms |-> 300,
     silence_duration_ms |-> 200, idle_timeout_ms |-> "null",
     create_response |-> TRUE, interrupt_response |-> TRUE]

\* turn-detection configurations a session response can carry
SessionTurnDetections ==
    {[type |-> "semantic_vad", threshold |-> "0.5", prefix_padding_ms |-> 300,
      silence_duration_ms |-> 200, idle_timeout_ms |-> "null",
      create_response |-> TRUE, interrupt_response |-> FALSE],
     [type |-> "server_vad", threshold |-> "0.9", prefix_padding_ms |-> 300,
      silence_duration_ms |-> 500, idle_timeout_ms |-> "null",
      create_response |-> TRUE, interrupt_response |-> TRUE]}

\* the `session` of a 2xx response of POST /realtime/session: absent, or
\* with or without a turn_detection
SessionPayloads ==
    {<< >>, <<[turn_detection |-> << >>]>>}
        \cup {<<[turn_detection |-> <<td>>]>> : td \in SessionTurnDetections}

\* the part of requestRealtimeSession that touches the refs
requestRealtimeSession(s, sessionPayload) ==
    IF /\ sessionPayload # << >>
       /\ sessionPayload[1].turn_detection # << >>
       /\ s.originalTurnDetection = << >>
    THEN [s EXCEPT !.originalTurnDetection = sessionPayload[1].turn_detection]
    ELSE s

disableAutoResponses_part002(s) ==
    IF s.turnDetectionDisabled THEN s
    ELSE [sendSessionUpdate(s, [turn_detection |-> EarlierManualTurnDetection])
            EXCEPT !.turnDetectionDisabled = TRUE]

restoreAutoResponses_noGuard(s) ==
    LET original == s.originalTurnDetection
        s1 == IF original # << >>
              THEN sendSessionUpdate(s, [turn_detection |-> original[1]])
              ELSE sendSessionUpdate(s, [turn_detection |-> EarlierDefaultTurnDetection])
    IN  [s1 EXCEPT !.turnDetectionDisabled = FALSE]

restoreAutoResponses_ignoresCaptured(s) ==
    IF ~s.turnDetectionDisabled THEN s
    ELSE [sendSessionUpdate(s, [turn_detection |-> EarlierDefaultTurnDetection])
            EXCEPT !.turnDetectionDisabled = FALSE]

restoreAutoResponses(s) ==
    IF ~s.turnDetectionDisabled THEN s
    ELSE LET original == s.originalTurnDetection
             s1 == IF original # << >>
                   THEN sendSessionUpdate(s, [turn_detection |-> original[1]])
                   ELSE sendSessionUpdate(s, [turn_detection |-> EarlierDefaultTurnDetection])
         IN  [s1 EXCEPT !.turnDetectionDisabled = FALSE]

resetCapture_part002(s) ==
    LET s1 == restoreAutoResponses([s EXCEPT !.capture.state = "idle",
                                             !.capture.buffer = "",
                                             !.lastUserUtterance = << >>])
    IN  [s1 EXCEPT !.capture.pendingCapturedText = "",
                   !.capture.transcriptionResponseId = << >>,
                   !.capture.transcriptionBuffer = "",
                   !.allowNextResponse = FALSE]

\* the queue is emptied before resetCapture runs, and the data channel ref
\* is null by then
stopVoiceSession_part002(s) ==
    resetCapture_part002([s EXCEPT !.connection = FALSE, !.dataChannel = "none",
                                   !.pendingSessionUpdates = << >>])

onopen_part002(s) == disableAutoResponses_part002(flushPendingSessionUpdates(s))

WAKE_PHRASE == "hey model test"

COMPLETE_KEYWORD == "complete"

TRANSCRIPTION_PROMPT ==
    "Transcribe exactly what the user said between the most recent \"hey model test\" wake phrase and the moment they said \"complete\". Return a single JSON object of the form {\"transcript\":\"<text>\"}. Do not include any additional commentary and do not output audio."

\* String.prototype.indexOf, 1-based; 0 stands for JavaScript's -1
indexOf(str, sub) ==
    LET hits == {i \in 1..(Len(str) - Len(sub) + 1) : SubSeq(str, i, i + Len(sub) - 1) = sub}
    IN  IF hits = {} THEN 0 ELSE CHOOSE i \in hits : \A j \in hits : i <= j

\* a response.create frame went out: the server owes its response.created
sendInstructionFrame(s, payload) ==
    [dcSend(s, payload) EXCEPT !.solicited = @ + 1]

sendRealtimeInstruction_part002(s, text) ==
    LET payload == [type |-> "response.create",
                    response |-> [modalities |-> <<"audio", "text">>,
                                  instructions |-> text]]
        s1 == [s EXCEPT !.allowNextResponse = TRUE]
    IN  IF s.dataChannel = "open" THEN sendInstructionFrame(s1, payload) ELSE s1

\* submitPingRequest of the variant up to its fetch, followed by the
\* resetCapture of the caller's async closure when it returns at once
submitPingRequest_part002(s, testText) ==
    IF ~s.apiBaseUrl
    THEN resetCapture_part002(
             sendRealtimeInstruction_part002(s, "Unable to reach the ping API right now."))
    ELSE IF ~s.bearer
    THEN resetCapture_part002(
             sendRealtimeInstruction_part002(s, "Add your bearer token before running the test."))
    ELSE [s EXCEPT !.http = Append(@, [url |-> "/secure/ping", method |-> "POST",
                                       number |-> testText]),
                   !.inflight = @ + 1]

\* the rest of submitPingRequest once the fetch has settled, and the
\* resetCapture that follows the await; the status of the one non-2xx
\* outcome is 401 and the message of the transport error "Failed to fetch"
pingSettled_part002(s, o) ==
    LET text == IF o.kind = "throw" THEN "Ping request failed: Failed to fetch"
                ELSE IF ~o.ok THEN "Ping request failed with status 401."
                ELSE IF o.body.kind = "object" /\ o.body.hasMessage
                     THEN "Ping response: " \o o.body.message
                ELSE "Ping response: Ping succeeded."
    IN  resetCapture_part002(sendRealtimeInstruction_part002(s, text))

requestTranscriptionFromModel(s, capturedText, enableTranscription) ==
    IF ~enableTranscription THEN submitPingRequest_part002(s, capturedText)
    ELSE IF s.dataChannel # "open"
    THEN submitPingRequest_part002([s EXCEPT !.allowNextResponse = FALSE], capturedText)
    ELSE sendInstructionFrame(
             [s EXCEPT !.allowNextResponse = TRUE,
                       !.capture.transcriptionBuffer = "",
                       !.capture.transcriptionResponseId = << >>],
             [type |-> "response.create",
              response |-> [modalities |-> <<"text">>,
                            instructions |-> TRANSCRIPTION_PROMPT]])

appendToCaptureBuffer(s, segment) ==
    LET trimmed == trim(segment)
    IN  IF trimmed = "" THEN s
        ELSE [s EXCEPT !.capture.buffer =
                           IF @ # "" THEN trim(@ \o " " \o trimmed) ELSE trimmed]

processCaptureSegment(s, segment, enableTranscription) ==
    IF segment = "" \/ trim(segment) = "" THEN s
    ELSE LET trimmedSegment == trim(segment)
             completeIdx == indexOf(toLowerCase(trimmedSegment), COMPLETE_KEYWORD)
             hasComplete == completeIdx # 0
             workingSegment == IF hasComplete
                               THEN SubSeq(trimmedSegment, 1, completeIdx - 1)
                               ELSE trimmedSegment
             s1 == appendToCaptureBuffer(s, workingSegment)
         IN  IF ~hasComplete THEN s1
             ELSE LET submission == trim(s1.capture.buffer)
                      s2 == [s1 EXCEPT !.capture.buffer = ""]
                  IN  IF submission = ""
                      THEN sendRealtimeInstruction_part002(resetCapture_part002(s2),
                               "I didn't catch your test. Please try again.")
                      ELSE IF ~enableTranscription
                      THEN submitPingRequest_part002(s2, submission)
                      ELSE requestTranscriptionFromModel(
                               [s2 EXCEPT !.capture.pendingCapturedText = submission,
                                          !.capture.state = "awaiting_transcription"],
                               submission, enableTranscription)

handleRecognizedText_part002(s, utterance, enableTranscription) ==
    LET text == trim(utterance)
    IN  IF text = "" THEN s
        ELSE IF s.lastUserUtterance = <<text>> THEN s
        ELSE LET s1 == [s EXCEPT !.lastUserUtterance = <<text>>]
                 lower == toLowerCase(text)
                 wakeIdx == indexOf(lower, WAKE_PHRASE)
             IN  IF s1.capture.state = "idle"
                 THEN IF wakeIdx = 0 THEN s1
                      ELSE LET s2 == sendCancelActiveResponse(
                                         disableAutoResponses_part002(s1), << >>)
                               s3 == sendRealtimeInstruction_part002(
                                         [s2 EXCEPT !.capture.state = "awaiting",
                                                    !.capture.buffer = ""],
                                         "whats your test. Please say \"complete\" when you are finished speaking.")
                               remainder == SubSeq(text, wakeIdx + Len(WAKE_PHRASE), Len(text))
                           IN  IF trim(remainder) # ""
                               THEN processCaptureSegment(s3, remainder, enableTranscription)
                               ELSE s3
                 ELSE IF s1.capture.state = "awaiting"
                 THEN processCaptureSegment(s1, text, enableTranscription)
                 ELSE s1

\* JSON.parse of the transcription text and the choice of transcriptText:
\* a JSON string literal yields its content, anything else that is drawn
\* here (text that is not JSON) is kept as it is
transcriptTextOf(raw) ==
    IF /\ Len(raw) >= 2
       /\ CharAt(raw, 1) = "\""
       /\ CharAt(raw, Len(raw)) = "\""
       /\ indexOf(SubSeq(raw, 2, Len(raw) - 1), "\"") = 0
    THEN SubSeq(raw, 2, Len(raw) - 1)
    ELSE raw

\* an inbound payload of the variant: id is response.id, text the delta
\* or transcript; "" stands for a field that is absent or not a string
EarlierPayload(type, id, response_id, text) ==
    [type |-> type, id |-> id, response_id |-> response_id, text |-> text]

handleRealtimeEvent_part002(s, payload, enableTranscription) ==
    IF payload.type = "session.created" THEN disableAutoResponses_part002(s)
    ELSE IF payload.type = "response.created"
    THEN LET s1 == IF payload.id # ""
                   THEN [s EXCEPT !.currentResponseId = <<payload.id>>]
                   ELSE s
         IN  IF /\ s1.allowNextResponse
                /\ s1.capture.state = "awaiting_transcription"
                /\ payload.id # ""
             THEN [s1 EXCEPT !.allowNextResponse = FALSE,
                             !.capture.transcriptionResponseId = <<payload.id>>,
                             !.capture.transcriptionBuffer = ""]
             ELSE IF s1.allowNextResponse THEN [s1 EXCEPT !.allowNextResponse = FALSE]
             ELSE IF s1.capture.state = "awaiting" /\ payload.id # ""
             THEN sendCancelActiveResponse(s1, <<payload.id>>)
             ELSE s1
    ELSE IF /\ payload.type \in {"response.audio_transcript.delta",
                                 "response.audio_transcript.done"}
            /\ s.capture.state \in {"awaiting", "awaiting_transcription"}
            /\ toLowerCase(trim(payload.text)) = "complete"
    THEN resetCapture_part002(
             sendCancelActiveResponse(s, IF payload.response_id # ""
                                         THEN <<payload.response_id>> ELSE << >>))
    ELSE IF payload.type = "response.output_text.delta"
    THEN IF /\ enableTranscription
            /\ payload.response_id # ""
            /\ s.capture.transcriptionResponseId = <<payload.response_id>>
         THEN [s EXCEPT !.capture.transcriptionBuffer = @ \o payload.text]
         ELSE s
    ELSE IF payload.type = "response.output_text.done"
    THEN IF /\ enableTranscription
            /\ payload.response_id # ""
            /\ s.capture.transcriptionResponseId = <<payload.response_id>>
         THEN LET transcriptText == transcriptTextOf(trim(s.capture.transcriptionBuffer))
                  finalTranscript == IF transcriptText # "" THEN transcriptText
                                     ELSE s.capture.pendingCapturedText
              IN  IF finalTranscript = ""
                  THEN resetCapture_part002(sendRealtimeInstruction_part002(s,
                           "Could not capture any text from the user."))
                  ELSE submitPingRequest_part002(s, finalTranscript)
         ELSE s
    ELSE IF payload.type = "response.done"
    THEN IF payload.id # "" /\ s.currentResponseId = <<payload.id>>
         THEN [s EXCEPT !.currentResponseId = << >>]
         ELSE s
    ELSE IF payload.type = "conversation.item.input_audio_transcription.completed"
    THEN IF payload.text # ""
         THEN handleRecognizedText_part002(s, payload.text, enableTranscription)
         ELSE s
    ELSE s

\* a step of the variant: the history of App.tsx's capture cycle stands still
EarlierStep == UNCHANGED <<triggerSeen, frags, lastInput, disableCalled, staleId>>

RequestRealtimeSessionOf(sessionPayload) ==
    /\ Commit(requestRealtimeSession(Cur, sessionPayload))
    /\ note' = ""
    /\ EarlierStep

RequestRealtimeSession ==
    \E sessionPayload \in SessionPayloads : RequestRealtimeSessionOf(sessionPayload)

EarlierStartVoiceSession ==
    /\ ~connection
    /\ Commit([Cur EXCEPT !.connection = TRUE, !.dataChannel = "connecting"])
    /\ note' = ""
    /\ EarlierStep

EarlierStopVoiceSession ==
    /\ Commit(stopVoiceSession_part002(Cur))
    /\ note' = "stop"
    /\ EarlierStep

EarlierChannelOpens ==
    /\ dataChannel = "connecting"
    /\ Commit(onopen_part002([Cur EXCEPT !.dataChannel = "open"]))
    /\ note' = ""
    /\ EarlierStep

\* disableAutoResponses as the handlers of the variant call it
EarlierCallDisableAutoResponses ==
    /\ Len(pendingSessionUpdates) < MaxPending
    /\ Commit(disableAutoResponses_part002(Cur))
    /\ note' = "disable"
    /\ EarlierStep

\* restoreAutoResponses called in any state
CallRestoreAutoResponses ==
    /\ Len(pendingSessionUpdates) < MaxPending
    /\ Commit(restoreAutoResponses(Cur))
    /\ note' = "restore"
    /\ EarlierStep

NextEarlier ==
    \/ RequestRealtimeSession
    \/ EarlierStartVoiceSession
    \/ EarlierStopVoiceSession
    \/ EarlierChannelOpens
    \/ EarlierCallDisableAutoResponses
    \/ CallRestoreAutoResponses

SpecEarlier == Init /\ [][NextEarlier]_vars

\* ------------------------------------------------------------------------
\* The earlier variant as it runs: session lifecycle, inbound events and
\* the settling of pending fetches
\* ------------------------------------------------------------------------
EarlierUtterances ==
    {"Hey model test", "hey model test ping complete", "ping", "one complete", "Complete"}

\* what the assistant is transcribed as saying, and the text deltas of a
\* transcription response
AudioTranscripts == {"Complete", "hello"}

TextDeltas == {"\"ping\"", "pi"}

\* the refs after the step, within the bounds of the model
CommitWithin(s) ==
    /\ s.inflight <= MaxInflight
    /\ s.solicited <= MaxSolicited
    /\ Len(s.pendingSessionUpdates) <= MaxPending
    /\ Len(s.capture.buffer) <= MaxText
    /\ Len(s.capture.transcriptionBuffer) <= MaxText
    /\ Commit(s)

EarlierStop ==
    /\ Commit([stopVoiceSession_part002(Cur) EXCEPT !.solicited = 0])
    /\ note' = "stop"
    /\ EarlierStep

EarlierEventOf(payload, enableTranscription, c) ==
    /\ dataChannel = "open"
    /\ CommitWithin(handleRealtimeEvent_part002(
           [Cur EXCEPT !.apiBaseUrl = c.apiBaseUrl, !.bearer = c.bearer],
           payload, enableTranscription))
    /\ note' = ""
    /\ EarlierStep

EarlierSessionCreated ==
    EarlierEventOf(EarlierPayload("session.created", "", "", ""), TRUE, Configured)

\* a response.created for a response.create frame sent earlier on this
\* channel (solicitedResponse) or for a response the server started itself
EarlierResponseCreatedOf(id, solicitedResponse) ==
    /\ dataChannel = "open"
    /\ solicitedResponse => solicited > 0
    /\ CommitWithin(handleRealtimeEvent_part002(
           [Cur EXCEPT !.solicited = IF solicitedResponse THEN @ - 1 ELSE @],
           EarlierPayload("response.created", id, "", ""), TRUE))
    /\ note' = ""
    /\ EarlierStep

EarlierResponseCreated ==
    \E id \in ResponseIds, solicitedResponse \in BOOLEAN :
        EarlierResponseCreatedOf(id, solicitedResponse)

EarlierResponseDone ==
    \E id \in ResponseIds :
        EarlierEventOf(EarlierPayload("response.done", id, "", ""), TRUE, Configured)

\* the utterances that can close a capture
CompletingUtterances ==
    {u \in EarlierUtterances : indexOf(toLowerCase(u), COMPLETE_KEYWORD) # 0}

\* enableTranscription and the prerequisites are read only when a capture
\* closes: every other delivery is taken with them set
EarlierTranscription ==
    \E u \in EarlierUtterances, enableTranscription \in BOOLEAN, c \in Prerequisites :
        /\ u \in CompletingUtterances \/ (enableTranscription /\ c = Configured)
        /\ EarlierEventOf(EarlierPayload("conversation.item.input_audio_transcription.completed",
                                         "", "", u),
                          enableTranscription, c)

EarlierAudioTranscript ==
    \E type \in {"response.audio_transcript.delta", "response.audio_transcript.done"},
       text \in AudioTranscripts, response_id \in ResponseIds :
        EarlierEventOf(EarlierPayload(type, "", response_id, text), TRUE, Configured)

EarlierOutputTextDelta ==
    \E text \in TextDeltas, response_id \in ResponseIds, enableTranscription \in BOOLEAN :
        EarlierEventOf(EarlierPayload("response.output_text.delta", "", response_id, text),
                       enableTranscription, Configured)

EarlierOutputTextDone ==
    \E response_id \in ResponseIds, enableTranscription \in BOOLEAN, c \in Prerequisites :
        /\ enableTranscription \/ c = Configured
        /\ EarlierEventOf(EarlierPayload("response.output_text.done", "", response_id, ""),
                          enableTranscription, c)

EarlierPingSettles ==
    \E o \in FetchOutcomes :
        /\ inflight > 0
        /\ CommitWithin(pingSettled_part002([Cur EXCEPT !.inflight = @ - 1], o))
        /\ note' = ""
        /\ EarlierStep

NextEarlierApp ==
    \/ RequestRealtimeSession
    \/ EarlierStartVoiceSession
    \/ EarlierStop
    \/ EarlierChannelOpens
    \/ EarlierSessionCreated
    \/ EarlierResponseCreated
    \/ EarlierResponseDone
    \/ EarlierTranscription
    \/ EarlierAudioTranscript
    \/ EarlierOutputTextDelta
    \/ EarlierOutputTextDone
    \/ EarlierPingSettles

SpecEarlierApp == Init /\ [][NextEarlierApp]_vars

\* ------------------------------------------------------------------------
\* Vocabulary of the properties
\* ------------------------------------------------------------------------
NormalisesToTrigger(u) ==
    \E i \in 1..Len(TRIGGER_PHRASES) : normaliseUtterance(u) = TRIGGER_PHRASES[i]

NormalisesToStop(u) ==
    \E i \in 1..Len(STOP_PHRASES) : normaliseUtterance(u) = STOP_PHRASES[i]

\* the words of the normalised form
TokenCount(u) == Len(SelectSeq(split(normaliseUtterance(u)), LAMBDA w : w # ""))

IsInstruction(f) == f.type = "response.create"

IsSessionUpdate(f) == f.type = "session.update"

IsCancel(f) == f.type = "response.cancel"

Instructions(frames) == SelectSeq(frames, IsInstruction)

SessionUpdates(frames) == SelectSeq(frames, IsSessionUpdate)

Cancels(frames) == SelectSeq(frames, IsCancel)

OverrideFrame ==
    [type |-> "session.update", session |-> [turn_detection |-> MANUAL_TURN_DETECTION]]

CancelFrame(id) == [type |-> "response.cancel", response_id |-> id]

PingRequest(text) == [url |-> "/secure/ping", method |-> "GET", number |-> text]

\* the instruction frame of a normal-mode reply to the utterance text
ReplyFrame(text) ==
    [type |-> "response.create",
     response |-> [modalities |-> <<"audio", "text">>,
                   instructions |-> "Respond only in English. The user said: " \o text
                                      \o ". Respond helpfully and conversationally.",
                   conversation |-> "none"]]

\* an instruction frame in exact-phrase mode
ExactFrame(text) ==
    [type |-> "response.create",
     response |-> [modalities |-> <<"audio", "text">>,
                   instructions |-> "Respond only in English. Say exactly: \"" \o text \o "\".",
                   conversation |-> "none"]]

AckFrame == ExactFrame("what do you want to test")

FailureFrame == ExactFrame("Ping request failed.")

SuccessFrame(message) == ExactFrame("Ping response: " \o message)

\* an instruction frame of respondNormally
IsReply(f) ==
    /\ IsInstruction(f)
    /\ startsWith(f.response.instructions, "Respond only in English. The user said: ")

\* an instruction frame that speaks the result of a call or its failure
IsAnswer(f) ==
    /\ IsInstruction(f)
    /\ \/ f = FailureFrame
       \/ startsWith(f.response.instructions,
                     "Respond only in English. Say exactly: \"Ping response: ")

\* the texts handed to submitPingRequest by the last step
Submitted == [i \in 1..Len(bridge) |-> bridge[i].text]

\* a text without its whitespace: the characters that are not spaces, in order
RECURSIVE withoutSpaces(_)
withoutSpaces(s) ==
    IF Len(s) = 0 THEN ""
    ELSE IF IsSpace(CharAt(s, 1)) THEN withoutSpaces(Rest(s))
    ELSE CharAt(s, 1) \o withoutSpaces(Rest(s))

\* the last step delivered a stop phrase in test mode and the cycle completed
CycleCompleted == note = "test" /\ mode = "normal"

\* the fragments of the completed cycle: what was delivered between the
\* trigger and the stop phrase
Fragments == SubSeq(frags, 1, Len(frags) - 1)

\* ------------------------------------------------------------------------
\* C1  As long as no delivered utterance has normalised to a trigger phrase,
\*     the mode is normal and no ping request has been issued or is pending.
\* ------------------------------------------------------------------------
C1_NoTriggerNoCapture ==
    ~triggerSeen => (mode = "normal" /\ testTranscript = << >> /\ bridge = << >>
                       /\ http = << >> /\ inflight = 0)

\* a stop phrase was delivered and answered as ordinary speech, no trigger so far
C1_Witness ==
    /\ ~triggerSeen
    /\ note = "normal"
    /\ lastInput = <<"model stop">>
    /\ out = <<ReplyFrame("model stop")>>

\* ------------------------------------------------------------------------
\* C2  (as stated) After a cycle trigger, f1..fn, stop, with no two
\*     consecutive fragments equal and none normalising to a trigger or stop
\*     phrase, the text handed to submitPingRequest is f1..fn joined with
\*     single spaces.
\* ------------------------------------------------------------------------
C2_FragmentsAsStated ==
    /\ \A i \in 1..Len(Fragments) :
          ~NormalisesToTrigger(Fragments[i]) /\ ~NormalisesToStop(Fragments[i])
    /\ \A i \in 1..(Len(Fragments) - 1) : Fragments[i] # Fragments[i + 1]

C2_CapturedIsJoinOfFragments ==
    (CycleCompleted /\ C2_FragmentsAsStated)
        => Submitted = IF join(Fragments) = "" THEN << >> ELSE <<join(Fragments)>>

\* C2  (amended) With no two consecutive fragments equal after trimming, the
\*     text handed to submitPingRequest is the trimmed fragments joined with single
\*     spaces, every run of whitespace inside a fragment collapsed to one
\*     space; the trigger and stop utterances are not part of it.
TrimmedFragments == [i \in 1..Len(Fragments) |-> trim(Fragments[i])]

C2_FragmentsAmended ==
    /\ \A i \in 1..Len(Fragments) :
          ~NormalisesToTrigger(Fragments[i]) /\ ~NormalisesToStop(Fragments[i])
    /\ \A i \in 1..(Len(Fragments) - 1) : TrimmedFragments[i] # TrimmedFragments[i + 1]

C2_CapturedIsJoinOfTrimmedFragments ==
    (CycleCompleted /\ C2_FragmentsAmended)
        => LET text == collapseSpaces(join(TrimmedFragments))
           IN  Submitted = IF text = "" THEN << >> ELSE <<text>>

\* a cycle of two fragments, one with surrounding and one with inner whitespace
C2_Witness ==
    /\ CycleCompleted
    /\ C2_FragmentsAmended
    /\ Fragments = <<" my\n", "Go,  now!">>
    /\ Submitted = <<"my Go, now!">>
    /\ http = <<PingRequest("my Go, now!")>>

\* ------------------------------------------------------------------------
\* C3  (as stated) After "hey model this is the body" is delivered in normal
\*     mode, the machine is in test mode with buffer ["this is the body"].
\* ------------------------------------------------------------------------
C3_TriggerWithRemainder ==
    (note = "normal" /\ lastInput = <<"hey model this is the body">>)
        => (mode = "test" /\ testTranscript = <<"this is the body">>)

\* ------------------------------------------------------------------------
\* C4  A delivery of the utterance delivered just before (equal after
\*     trimming) changes no ref, sends no frame and issues no request.
\* ------------------------------------------------------------------------
C4_DuplicateIsNoOp ==
    [][note' = "dup" => (UNCHANGED progVars /\ out' = << >> /\ http' = << >>)]_vars

\* a fragment was delivered twice in a row in test mode and is in the buffer once
C4_Witness ==
    /\ note = "dup"
    /\ mode = "test"
    /\ lastInput = <<"Go,  now!">>
    /\ testTranscript = <<"Hey, Model!", "Go,  now!">>

\* ------------------------------------------------------------------------
\* C5  In normal mode an utterance whose normalised form is empty or a single
\*     token outside the allow-list gets no reply instruction and leaves the
\*     mode normal.
\* ------------------------------------------------------------------------
IsSingleTokenNoise(u) ==
    \/ normaliseUtterance(u) = ""
    \/ /\ TokenCount(u) = 1
       /\ normaliseUtterance(u) \notin COMMON_SINGLE_WORDS
       /\ ~NormalisesToTrigger(u) /\ ~NormalisesToStop(u)

C5_NoiseGetsNoReply ==
    (note = "normal" /\ IsSingleTokenNoise(lastInput[1]))
        => (mode = "normal" /\ Instructions(out) = << >>)

C5_Witness ==
    /\ note = "normal"
    /\ lastInput = <<" my\n">>
    /\ lastUserUtterance = <<"my">>
    /\ out = << >>

\* ------------------------------------------------------------------------
\* C6  In normal mode a delivered utterance of two or more tokens that is not
\*     a trigger phrase gets exactly one reply instruction, built by
\*     respondNormally from the trimmed utterance.
\* ------------------------------------------------------------------------
C6_PhraseGetsOneReply ==
    (note = "normal" /\ TokenCount(lastInput[1]) >= 2 /\ ~NormalisesToTrigger(lastInput[1]))
        => (mode = "normal" /\ out = <<ReplyFrame(trim(lastInput[1]))>>)

C6_Witness ==
    /\ note = "normal"
    /\ lastInput = <<"Go,  now!">>
    /\ out = <<ReplyFrame("Go,  now!")>>

\* ------------------------------------------------------------------------
\* C7  response.created(A) makes A the tracked response; the cancel() of
\*     enterTestMode then sends exactly one response.cancel, for A, and clears
\*     the tracker; a response.done(A) that follows changes nothing in it.
\* ------------------------------------------------------------------------
C7_CancelTargetsTrackedResponse ==
    [][ /\ \A id \in ResponseIds \ {""} :
              (out' = << >> /\ ~allowNextResponse' /\ ResponseCreatedOf(id))
                  => currentResponseId' = <<id>>
        /\ (note' = "normal" /\ mode' = "test" /\ currentResponseId # << >>)
              => /\ Cancels(out') = <<CancelFrame(currentResponseId[1])>>
                 /\ currentResponseId' = << >>
        /\ \A id \in ResponseIds \ {""} :
              (Cancels(out) = <<CancelFrame(id)>> /\ ResponseDoneOf(id))
                  => (currentResponseId' = currentResponseId /\ out' = << >>)
      ]_vars

\* the trigger was delivered while resp_A was active: it was cancelled
C7_Witness ==
    /\ note = "normal"
    /\ mode = "test"
    /\ Cancels(out) = <<CancelFrame("resp_A")>>
    /\ currentResponseId = << >>

\* ------------------------------------------------------------------------
\* C8  (as stated) A response.created(id) that arrives in test mode while no
\*     local instruction awaits its response causes a response.cancel for id.
\* ------------------------------------------------------------------------
C8_UnsolicitedResponseIsCancelled ==
    [][ \A id \in ResponseIds \ {""} :
            (ResponseCreatedOf(id) /\ mode = "test" /\ ~allowNextResponse)
                => Cancels(out') = <<CancelFrame(id)>>
      ]_vars

\* ------------------------------------------------------------------------
\* C9  A call of disableAutoResponses after an earlier one, with no rejection
\*     or stop in between, changes nothing and emits nothing; the first call
\*     produces exactly one override frame, sent on an open channel and
\*     queued otherwise.
\* ------------------------------------------------------------------------
C9_DisableIsIdempotent ==
    [][ /\ note' = "again" => (UNCHANGED progVars /\ out' = << >>)
        /\ note' = "first" =>
              IF dataChannel = "open"
              THEN out' = <<OverrideFrame>> /\ UNCHANGED pendingSessionUpdates
              ELSE out' = << >>
                   /\ pendingSessionUpdates' = Append(pendingSessionUpdates, OverrideFrame)
      ]_vars

\* the second of two calls made before the channel opened: one frame is queued
C9_Witness ==
    /\ note = "again"
    /\ dataChannel = "connecting"
    /\ pendingSessionUpdates = <<OverrideFrame>>
    /\ out = << >>

\* ------------------------------------------------------------------------
\* C10 The queued session.update frames are the first frames sent when the
\*     channel opens, in the order they were queued, and the queue is empty
\*     afterwards; until then, short of a session stop, no step removes or
\*     reorders a queued frame, and nothing is sent while the channel is not
\*     open.
\* ------------------------------------------------------------------------
C10_QueueFlushedOnceInOrder ==
    [][ IF dataChannel # "open" /\ dataChannel' = "open"
        THEN /\ Len(out') >= Len(pendingSessionUpdates)
             /\ SubSeq(out', 1, Len(pendingSessionUpdates)) = pendingSessionUpdates
             /\ pendingSessionUpdates' = << >>
        ELSE IF StopVoiceSession
        THEN pendingSessionUpdates' = << >>
        ELSE /\ Len(pendingSessionUpdates') >= Len(pendingSessionUpdates)
             /\ SubSeq(pendingSessionUpdates', 1, Len(pendingSessionUpdates))
                    = pendingSessionUpdates
             /\ (dataChannel' # "open" => out' = << >>)
             /\ (dataChannel' = "open" => pendingSessionUpdates' = << >>)
      ]_vars

\* two different frames were queued and came out first, in their order
C10_Witness ==
    /\ dataChannel = "open"
    /\ pendingSessionUpdates = << >>
    /\ Len(out) >= 3
    /\ out[1] = [type |-> "session.update",
                 session |-> [turn_detection |-> PERMISSIVE_TURN_DETECTION]]
    /\ out[2] = OverrideFrame
    /\ IsInstruction(out[Len(out)])

\* ------------------------------------------------------------------------
\* C11 An error frame whose param starts with session.turn_detection sets
\*     the disabled flag to false and changes nothing else: the session stays
\*     up, and mode, buffer, last utterance, tracked response and pending
\*     queue are as before; the next disableAutoResponses (on session.created
\*     or on a trigger utterance) sends the override frame again.
\* ------------------------------------------------------------------------
C11_RejectionResetsFlag ==
    [][ /\ \A p \in ErrorParams :
              (Len(p) >= 22 /\ SubSeq(p, 1, 22) = "session.turn_detection"
                  /\ note' = "" /\ ErrorEventOf(p))
                  => /\ turnDetectionDisabled' = FALSE
                     /\ UNCHANGED <<connection, dataChannel, mode, testTranscript,
                                    lastUserUtterance, currentResponseId,
                                    pendingSessionUpdates>>
                     /\ out' = << >>
        /\ (~turnDetectionDisabled /\ SessionCreated)
              => (out' = <<OverrideFrame>> /\ turnDetectionDisabled')
        /\ (note' = "normal" /\ mode' = "test" /\ ~turnDetectionDisabled)
              => (SessionUpdates(out') = <<OverrideFrame>> /\ turnDetectionDisabled')
      ]_vars

\* in test mode, with a response tracked, the override was rejected and
\* session.created has just sent it again
C11_Witness ==
    /\ dataChannel = "open"
    /\ mode = "test"
    /\ testTranscript # << >>
    /\ currentResponseId # << >>
    /\ turnDetectionDisabled
    /\ out = <<OverrideFrame>>

\* ------------------------------------------------------------------------
\* C12 (as stated) After a cycle completed on a stop phrase the
\*     turn-detection-disabled flag is false.
\* ------------------------------------------------------------------------
C12_CycleRestoresTurnDetection == CycleCompleted => ~turnDetectionDisabled

\* ------------------------------------------------------------------------
\* C13 (as stated) After a cycle completed on a stop phrase the capture state
\*     is {mode: normal, buffer: [], lastUtterance: null}.
\* ------------------------------------------------------------------------
C13_CycleResetsCaptureState ==
    CycleCompleted
        => (mode = "normal" /\ testTranscript = << >> /\ lastUserUtterance = << >>)

\* ------------------------------------------------------------------------
\* C14 The buffer is non-empty only in test mode: in normal mode, entered by
\*     a stop phrase or by a session stop or being the initial mode, it is
\*     empty.
\* ------------------------------------------------------------------------
C14_BufferOnlyInTestMode == testTranscript # << >> => mode = "test"

\* a cycle with two fragments in the buffer has completed and left it empty
C14_Witness ==
    /\ CycleCompleted
    /\ Len(frags) = 3
    /\ Submitted # << >>
    /\ testTranscript = << >>

\* ------------------------------------------------------------------------
\* C15 A trigger utterance delivered in normal mode puts the machine in test
\*     mode with the raw utterance as the only buffer entry, leaves turn
\*     detection disabled (the override is sent if it was not) and no
\*     response tracked (the tracked one is cancelled), and sends exactly one
\*     instruction, the acknowledgement in exact-phrase mode; no step that
\*     starts and ends in test mode sends the acknowledgement.
\* ------------------------------------------------------------------------
C15_TriggerAcknowledgedOnce ==
    [][ /\ (note' = "normal" /\ NormalisesToTrigger(lastInput'[1]))
              => /\ mode' = "test"
                 /\ testTranscript' = lastInput'
                 /\ turnDetectionDisabled'
                 /\ SessionUpdates(out') =
                        IF turnDetectionDisabled THEN << >> ELSE <<OverrideFrame>>
                 /\ currentResponseId' = << >>
                 /\ Cancels(out') =
                        IF currentResponseId = << >> THEN << >>
                        ELSE <<CancelFrame(currentResponseId[1])>>
                 /\ Instructions(out') = <<AckFrame>>
        /\ (mode = "test" /\ mode' = "test")
              => \A i \in 1..Len(out') : out'[i] # AckFrame
      ]_vars

\* the trigger was delivered after a rejection, while resp_B was active:
\* override, cancel and acknowledgement went out, in this order
C15_Witness ==
    /\ note = "normal"
    /\ mode = "test"
    /\ testTranscript = <<"Hey, Model!">>
    /\ out = <<OverrideFrame, CancelFrame("resp_B"), AckFrame>>

\* ------------------------------------------------------------------------
\* C16 When a cycle completes, the captured text is what exitTestMode makes
\*     of the buffer. If it is empty, submitPingRequest is not called: no
\*     request goes out, none becomes pending and no instruction is sent. If
\*     it is not empty, submitPingRequest is called exactly once, with that
\*     text, and at most one request, carrying it, goes out.
\* ------------------------------------------------------------------------
C16_SubmitIffCaptured ==
    [][ (note' = "test" /\ mode' = "normal")
            => LET text == capturedTranscript(Append(testTranscript, lastInput'[1]))
               IN  IF text = ""
                   THEN /\ bridge' = << >>
                        /\ http' = << >>
                        /\ out' = << >>
                        /\ inflight' = inflight
                   ELSE /\ Submitted' = <<text>>
                        /\ \/ http' = <<PingRequest(text)>> /\ inflight' = inflight + 1
                           \/ http' = << >> /\ inflight' = inflight
      ]_vars

\* the stop phrase came right after the trigger: nothing was submitted
C16_Witness ==
    /\ CycleCompleted
    /\ frags = <<"model stop">>
    /\ bridge = << >>
    /\ http = << >>
    /\ out = << >>

\* ------------------------------------------------------------------------
\* C17 A submission whose fetch throws or is answered with a non-2xx status
\*     resolves into the failure phrase, issued in exact-phrase mode (sent
\*     when the channel is open), and leaves mode, buffer and last utterance
\*     as they are; a call of submitPingRequest that finds the API base URL
\*     or the bearer token missing sends the failure phrase at once, with no
\*     request going out and no call left pending.
\* ------------------------------------------------------------------------
C17_FailureSpeaksFailurePhrase ==
    [][ /\ \A o \in FetchOutcomes :
              ((o.kind = "throw" \/ ~o.ok) /\ inflight' < inflight
                  /\ PingResolvesOf(pingResult(o)))
                  => /\ out' = IF dataChannel = "open" THEN <<FailureFrame>> ELSE << >>
                     /\ UNCHANGED <<mode, testTranscript, lastUserUtterance>>
        /\ \A i \in 1..Len(bridge') :
              (~bridge'[i].apiBaseUrl \/ ~bridge'[i].bearer)
                  => /\ http' = << >>
                     /\ inflight' = inflight
                     /\ out' = <<FailureFrame>>
                     /\ mode' = "normal" /\ testTranscript' = << >>
      ]_vars

\* a text was captured while the bearer token was missing
C17_Witness ==
    /\ CycleCompleted
    /\ bridge = <<[text |-> "Go, now!", apiBaseUrl |-> TRUE, bearer |-> FALSE]>>
    /\ http = << >>
    /\ out = <<FailureFrame>>

\* ------------------------------------------------------------------------
\* C18 (as stated) A submission answered with a 2xx status, whatever the
\*     body (no message field, an empty message, a non-empty one), resolves
\*     on the open channel into the success instruction carrying the returned
\*     message, in exact-phrase mode.
\* ------------------------------------------------------------------------
C18_SuccessSpeaksMessage ==
    [][ \A o \in FetchOutcomes :
            (o.kind = "response" /\ o.ok /\ dataChannel = "open"
                /\ PingResolvesOf(pingResult(o)))
                => out' = <<SuccessFrame(pingResult(o)[1])>>
      ]_vars

\* ------------------------------------------------------------------------
\* C19 (as stated) A submission that resolves while no channel is open, the
\*     session having been stopped since the call was made, changes no ref
\*     and sends no frame.
\* ------------------------------------------------------------------------
C19_StaleResolutionHasNoEffect ==
    [][ \A r \in PingResults :
            (PingResolvesOf(r) /\ dataChannel # "open")
                => /\ UNCHANGED <<connection, dataChannel, lastUserUtterance, mode,
                                  testTranscript, turnDetectionDisabled,
                                  pendingSessionUpdates, currentResponseId,
                                  allowNextResponse>>
                   /\ out' = << >>
      ]_vars

\* ------------------------------------------------------------------------
\* C20 (as stated) The resolution of a submission leaves mode, buffer, last
\*     utterance, tracked response, disabled flag, pending queue and the
\*     allow-next-response flag unchanged, and sends one instruction.
\* ------------------------------------------------------------------------
C20_ResolutionMutatesNothing ==
    [][ \A r \in PingResults :
            PingResolvesOf(r)
                => /\ UNCHANGED <<mode, testTranscript, lastUserUtterance, currentResponseId,
                                  turnDetectionDisabled, pendingSessionUpdates,
                                  allowNextResponse>>
                   /\ Len(out') = 1 /\ IsInstruction(out'[1])
      ]_vars

\* C20 (amended) The resolution of a submission leaves mode, buffer, last
\*     utterance, tracked response, disabled flag and pending queue
\*     unchanged; it sets the allow-next-response flag and, when the channel
\*     is open, sends exactly one instruction, the result or the failure
\*     phrase in exact-phrase mode; it sends nothing otherwise.
C20_ResolutionSetsOnlyAllowFlag ==
    [][ \A r \in PingResults :
            (inflight' < inflight /\ PingResolvesOf(r))
                => /\ UNCHANGED <<mode, testTranscript, lastUserUtterance, currentResponseId,
                                  turnDetectionDisabled, pendingSessionUpdates,
                                  connection, dataChannel>>
                   /\ allowNextResponse'
                   /\ inflight' = inflight - 1
                   /\ http' = << >>
                   /\ out' = IF dataChannel # "open" THEN << >>
                             ELSE IF r = << >> \/ r = <<"">> THEN <<FailureFrame>>
                             ELSE <<SuccessFrame(r[1])>>
      ]_vars

\* the result arrived during the next cycle, after the response to its
\* acknowledgement had started: the flag is set again, the cycle goes on
C20_Witness ==
    /\ mode = "test"
    /\ testTranscript = <<"Hey, Model!", "Go,  now!">>
    /\ currentResponseId = <<"resp_A">>
    /\ allowNextResponse
    /\ out = <<SuccessFrame("you sent me 1")>>

\* ------------------------------------------------------------------------
\* C21 (as stated) Whenever a submission resolves, the mode is normal.
\* ------------------------------------------------------------------------
\* only the resolution of a submission takes a call off the pending ones
C21_ResolvesInNormalMode ==
    [][ inflight' < inflight => mode = "normal" ]_vars

\* C21 (amended) A submission is made with the mode just set to normal, its
\*     resolution does not change the mode, and while one is pending only
\*     the delivery of a trigger utterance in normal mode takes the mode to
\*     test: a submission resolves in normal mode unless a trigger utterance
\*     was delivered while it was pending.
C21_ResolvesInNormalModeUnlessTriggered ==
    [][ /\ (inflight' > inflight \/ bridge' # << >>) => mode' = "normal"
        /\ inflight' < inflight => mode' = mode
        /\ (inflight > 0 /\ mode = "normal" /\ mode' = "test")
              => (note' = "normal" /\ NormalisesToTrigger(lastInput'[1]))
        /\ (inflight' < inflight /\ mode = "test") => NormalisesToTrigger(testTranscript[1])
      ]_vars

\* the failure of the submission came after the trigger of the next cycle
C21_Witness ==
    /\ mode = "test"
    /\ testTranscript = <<"Hey, Model!">>
    /\ inflight = 0
    /\ out = <<FailureFrame>>

\* ------------------------------------------------------------------------
\* C22 (as stated) After stopVoiceSession the pending queue is empty, the
\*     disabled flag false, no response tracked, the allow-next-response
\*     flag false, connection and channel released, and the capture state
\*     {normal, [], null}.
\* ------------------------------------------------------------------------
C22_StopClearsSessionState ==
    note \in {"stop", "stop in test", "stop again"}
        => /\ pendingSessionUpdates = << >>
           /\ ~turnDetectionDisabled
           /\ currentResponseId = << >>
           /\ ~allowNextResponse
           /\ ~connection /\ dataChannel = "none"
           /\ mode = "normal" /\ testTranscript = << >> /\ lastUserUtterance = << >>

\* ------------------------------------------------------------------------
\* C23 stopVoiceSession called right after stopVoiceSession changes no ref
\*     and sends nothing; so does a call with no session, and from every
\*     state two calls leave what one call leaves.
\* ------------------------------------------------------------------------
C23_StopIsIdempotent ==
    [][ /\ note' = "stop again" => (UNCHANGED progVars /\ out' = << >> /\ http' = << >>)
        /\ (StopVoiceSession /\ ~connection /\ dataChannel = "none")
              => (UNCHANGED <<turnDetectionDisabled, pendingSessionUpdates, mode,
                              testTranscript, currentResponseId>> /\ out' = << >>)
        /\ stopVoiceSession(stopVoiceSession(Cur)) = stopVoiceSession(Cur)
      ]_vars

\* a session in which a trigger was delivered was stopped, and stopped again
C23_Witness ==
    /\ note = "stop again"
    /\ triggerSeen
    /\ ~connection
    /\ dataChannel = "none"
    /\ mode = "normal"

\* ------------------------------------------------------------------------
\* C24 (as stated) sendCancelActiveResponse() called while a response is
\*     tracked leaves no response tracked, whatever the state of the channel.
\* ------------------------------------------------------------------------
C24_CancelClearsTracker ==
    [][ (CallSendCancelActiveResponseOf(<< >>) /\ currentResponseId # << >>)
            => currentResponseId' = << >>
      ]_vars

\* ------------------------------------------------------------------------
\* C25 An instruction issued while the channel is not open is dropped: it
\*     sends nothing and leaves the pending queue as it is, which holds
\*     session.update frames only, so that what goes out when the channel
\*     opens is the queue, the override if it is due, and the greeting; a
\*     session.update issued while the channel is not open is appended to the
\*     queue.
\* ------------------------------------------------------------------------
C25_InstructionsDroppedUpdatesQueued ==
    [][ /\ (note' = "instruction" /\ dataChannel # "open")
              => (out' = << >> /\ UNCHANGED pendingSessionUpdates)
        /\ \A i \in 1..Len(pendingSessionUpdates') : IsSessionUpdate(pendingSessionUpdates'[i])
        /\ ChannelOpens
              => out' = pendingSessionUpdates
                          \o (IF turnDetectionDisabled THEN << >> ELSE <<OverrideFrame>>)
                          \o <<ExactFrame("Hello!")>>
        /\ \A patch \in SessionPatches :
              (CallSendSessionUpdateOf(patch) /\ dataChannel # "open")
                  => /\ out' = << >>
                     /\ pendingSessionUpdates' =
                            Append(pendingSessionUpdates,
                                   [type |-> "session.update", session |-> patch])
      ]_vars

\* a session.update is queued and an instruction has just been dropped
C25_Witness ==
    /\ note = "instruction"
    /\ dataChannel = "connecting"
    /\ allowNextResponse
    /\ out = << >>
    /\ pendingSessionUpdates =
           <<[type |-> "session.update",
              session |-> [turn_detection |-> PERMISSIVE_TURN_DETECTION]]>>

\* ------------------------------------------------------------------------
\* C27 stopVoiceSession, which is what a failed or disconnected connection
\*     and a failed session start call, leaves the mode normal and the buffer
\*     empty with connection and channel released, also when called in test
\*     mode; the mode is never test without a connection.
\* ------------------------------------------------------------------------
C27_TeardownLeavesNormalMode ==
    [][ /\ StopVoiceSession
              => /\ mode' = "normal" /\ testTranscript' = << >>
                 /\ ~connection' /\ dataChannel' = "none"
        /\ ~connection' => (mode' = "normal" /\ testTranscript' = << >>)
      ]_vars

\* the connection failed during a cycle
C27_Witness ==
    /\ note = "stop in test"
    /\ ~connection
    /\ dataChannel = "none"
    /\ mode = "normal"
    /\ testTranscript = << >>

\* ------------------------------------------------------------------------
\* C30 (as stated) Every response.cancel sent carries the id that is tracked,
\*     and that id was learned from a response.created of the current
\*     session, with no response.done or cancel for it processed since.
\* ------------------------------------------------------------------------
C30_CancelTargetsLiveResponse ==
    [][ Cancels(out') # << >>
            => /\ currentResponseId # << >>
               /\ Cancels(out') = <<CancelFrame(currentResponseId[1])>>
               /\ ~staleId
      ]_vars

\* ------------------------------------------------------------------------
\* C26 A frame that is not JSON, a payload that is not an object and an
\*     object of an unhandled type change no ref, send no frame and issue no
\*     request.
\* ------------------------------------------------------------------------
C26_UnhandledFramesAreNoOps ==
    [][ note' = "ignored" => (UNCHANGED progVars /\ out' = << >> /\ http' = << >>) ]_vars

\* an unhandled frame arrived during a cycle, with a response tracked and a
\* submission pending
C26_Witness ==
    /\ note = "ignored"
    /\ mode = "test"
    /\ Len(testTranscript) = 2
    /\ currentResponseId = <<"resp_B">>
    /\ inflight = 1

\* ------------------------------------------------------------------------
\* C28 The text submitted when a cycle completes is, whitespace apart, the
\*     raw buffer entries after the trigger, character for character, with
\*     their case and punctuation, and a request that goes out carries it
\*     unchanged; the text quoted in a normal-mode reply is the raw
\*     utterance without its surrounding whitespace.
\* ------------------------------------------------------------------------
C28_TextKeepsCaseAndPunctuation ==
    [][ /\ (note' = "test" /\ mode' = "normal" /\ bridge' # << >>)
              => /\ withoutSpaces(Submitted'[1]) = withoutSpaces(join(Tail(testTranscript)))
                 /\ \A i \in 1..Len(http') : http'[i].number = Submitted'[1]
        /\ (note' = "normal" /\ mode' = "normal" /\ Instructions(out') # << >>)
              => out' = <<ReplyFrame(trim(lastInput'[1]))>>
      ]_vars

\* fragments with capitals and punctuation were captured as they were said
C28_Witness ==
    /\ CycleCompleted
    /\ Fragments = <<"Go,  now!", "Hey, Model!">>
    /\ Submitted = <<"Go, now! Hey, Model!">>
    /\ http = <<PingRequest("Go, now! Hey, Model!")>>

\* ------------------------------------------------------------------------
\* C29 In the earlier variant, restoreAutoResponses called while the
\*     disabled flag is false changes nothing and sends and queues nothing;
\*     called while the flag is true it emits exactly one session.update
\*     (sent on an open channel, queued otherwise), which carries the
\*     configuration captured at session start if there is one and else a
\*     configuration with create_response and interrupt_response true, and
\*     it sets the flag to false.
\* ------------------------------------------------------------------------
C29_RestoreIsGuardedAndFaithful ==
    [][ note' = "restore" =>
          IF ~turnDetectionDisabled
          THEN UNCHANGED progVars /\ out' = << >> /\ http' = << >>
          ELSE LET queued == SubSeq(pendingSessionUpdates',
                                    Len(pendingSessionUpdates) + 1,
                                    Len(pendingSessionUpdates'))
                   emitted == out' \o queued
               IN  /\ ~turnDetectionDisabled'
                   /\ SubSeq(pendingSessionUpdates', 1, Len(pendingSessionUpdates))
                          = pendingSessionUpdates
                   /\ (dataChannel = "open") = (queued = << >>)
                   /\ Len(emitted) = 1
                   /\ emitted[1].type = "session.update"
                   /\ IF originalTurnDetection # << >>
                      THEN emitted[1].session
                               = [turn_detection |-> originalTurnDetection[1]]
                      ELSE /\ DOMAIN emitted[1].session = {"turn_detection"}
                           /\ emitted[1].session.turn_detection.create_response
                           /\ emitted[1].session.turn_detection.interrupt_response
                   /\ UNCHANGED <<connection, dataChannel, lastUserUtterance,
                                  currentResponseId, allowNextResponse,
                                  originalTurnDetection>>
      ]_vars

\* restore sent the captured semantic_vad configuration on an open channel
C29_Witness ==
    /\ note = "restore"
    /\ dataChannel = "open"
    /\ ~turnDetectionDisabled
    /\ originalTurnDetection # << >>
    /\ originalTurnDetection[1].type = "semantic_vad"
    /\ out = <<[type |-> "session.update",
                session |-> [turn_detection |-> originalTurnDetection[1]]]>>

\* ------------------------------------------------------------------------
\* C31 The tracker follows arrival order: a response.created carrying an
\*     id makes that id the tracked response, whatever was tracked before;
\*     a response.done carrying an id clears the tracker if that id is the
\*     tracked one and leaves the tracker as it was otherwise.
\* ------------------------------------------------------------------------
C31_TrackerFollowsArrivalOrder ==
    [][ (note' = "" /\ out' = << >> /\ dataChannel' = "open") =>
          \A id \in ResponseIds \ {""} :
             /\ ResponseCreatedOf(id) => currentResponseId' = <<id>>
             /\ ResponseDoneOf(id)
                   => currentResponseId' = IF currentResponseId = <<id>> THEN << >>
                                           ELSE currentResponseId
      ]_vars

\* a response.created arrived after a reply was requested: it consumed the
\* allowance and its id is tracked
C31_Witness ==
    /\ dataChannel = "open"
    /\ mode = "normal"
    /\ note = ""
    /\ lastInput = <<"Go,  now!">>
    /\ ~allowNextResponse
    /\ currentResponseId = <<"resp_B">>

\* ------------------------------------------------------------------------
\* C32 An utterance delivered in test mode that is not a repeat of the
\*     previous one gets no normal-mode reply, and unless it is the stop
\*     phrase that ends the cycle it is appended as it was said, at the
\*     end of the buffer, with nothing sent: single tokens and trigger
\*     phrases included.
\* ------------------------------------------------------------------------
C32_TestModeAppendsEverything ==
    [][ note' = "test" =>
          /\ \A i \in 1..Len(out') : ~IsReply(out'[i])
          /\ ~NormalisesToStop(lastInput'[1])
                => /\ testTranscript' = Append(testTranscript, lastInput'[1])
                   /\ mode' = "test"
                   /\ out' = << >>
      ]_vars

\* a single token and then a trigger phrase were appended after the trigger
C32_Witness ==
    /\ note = "test"
    /\ mode = "test"
    /\ testTranscript = <<"Hey, Model!", "test", "Hey, Model!">>
    /\ out = << >>

\* ------------------------------------------------------------------------
\* C34 (as stated) In the earlier variant the pending queue is empty after
\*     stopVoiceSession, in whatever state it is called.
\* ------------------------------------------------------------------------
C34_QueueEmptyAfterStop ==
    note = "stop" => pendingSessionUpdates = << >>

\* ------------------------------------------------------------------------
\* C35 An utterance that arrives in normal mode and normalises to a trigger
\*     phrase always causes the transition to test mode: it is never a
\*     repeat of the remembered utterance, because in normal mode the
\*     remembered utterance never normalises to a trigger phrase.
\* ------------------------------------------------------------------------
C35_TriggerAlwaysEntersTestMode ==
    [][ /\ (note' \in {"normal", "dup"} /\ mode = "normal"
                /\ NormalisesToTrigger(lastInput'[1]))
              => (mode' = "test" /\ note' = "normal")
        /\ (mode' = "normal" /\ lastUserUtterance' # << >>)
              => ~NormalisesToTrigger(lastUserUtterance'[1])
      ]_vars

\* a trigger entered test mode while the call of an earlier cycle, which
\* the same trigger had started, was still pending
C35_Witness ==
    /\ note = "normal"
    /\ mode = "test"
    /\ lastInput = <<"Hey, Model!">>
    /\ testTranscript = <<"Hey, Model!">>
    /\ inflight = 1

\* ------------------------------------------------------------------------
\* C36 An utterance that arrives in test mode and normalises to a stop
\*     phrase always completes the cycle (it is never a repeat of the
\*     remembered utterance), and while the mode is test no element of the
\*     buffer normalises to a stop phrase.
\* ------------------------------------------------------------------------
C36_StopAlwaysCompletesCycle ==
    [][ /\ (note' \in {"test", "dup"} /\ mode = "test"
                /\ NormalisesToStop(lastInput'[1]))
              => (note' = "test" /\ mode' = "normal" /\ testTranscript' = << >>)
        /\ mode' = "test"
              => \A i \in 1..Len(testTranscript') : ~NormalisesToStop(testTranscript'[i])
      ]_vars

\* the stop phrase that ended the previous cycle ends this one too, right
\* after the trigger, while the previous cycle's call is pending
C36_Witness ==
    /\ CycleCompleted
    /\ lastInput = <<"model stop">>
    /\ Fragments = << >>
    /\ lastUserUtterance = <<"model stop">>
    /\ inflight = 1

\* ------------------------------------------------------------------------
\* C37 While the mode is test the buffer is not empty and its first element
\*     normalises to a trigger phrase; so when the cycle completes the
\*     captured text is made of everything after the first element, up to
\*     the stop phrase that was just delivered.
\* ------------------------------------------------------------------------
C37_BufferStartsWithTrigger ==
    [][ /\ mode' = "test"
              => (testTranscript' # << >> /\ NormalisesToTrigger(testTranscript'[1]))
        /\ (note' = "test" /\ mode' = "normal")
              => LET body == [i \in 1..(Len(testTranscript) - 1) |->
                                 trim(testTranscript[i + 1])]
                     text == trim(collapseSpaces(join(body)))
                 IN  IF text = "" THEN bridge' = << >> ELSE Submitted' = <<text>>
      ]_vars

\* two fragments follow the trigger in the buffer
C37_Witness ==
    /\ mode = "test"
    /\ note = "test"
    /\ testTranscript = <<"Hey, Model!", " my\n", "hey model this is the body">>

\* ------------------------------------------------------------------------
\* C38 The first frame sent in a session is the turn-detection override:
\*     frames are sent on an open channel only, and the step in which the
\*     channel opens sends the override first and the greeting instruction
\*     last, so no instruction is sent in a session before an override.
\* ------------------------------------------------------------------------
C38_OverrideIsFirstFrame ==
    [][ /\ (dataChannel # "open" /\ dataChannel' = "open")
              => /\ Len(out') >= 2
                 /\ out'[1] = OverrideFrame
                 /\ \A i \in 1..(Len(out') - 1) : IsSessionUpdate(out'[i])
                 /\ out'[Len(out')] = ExactFrame("Hello!")
        /\ out' # << >> => dataChannel' = "open"
      ]_vars

\* the channel of a later session has just opened: the tracked id is still
\* that of the session before
C38_Witness ==
    /\ dataChannel = "open"
    /\ staleId
    /\ note = ""
    /\ out = <<OverrideFrame, ExactFrame("Hello!")>>

\* ------------------------------------------------------------------------
\* C39 With several calls pending at once: a cycle that completes with a
\*     non-empty text makes exactly one call of submitPingRequest, which
\*     either issues exactly one request and stays pending or, with a
\*     prerequisite missing, is answered at once by one failure
\*     instruction; every resolution answers exactly one pending call with
\*     exactly one instruction attempt (sent on an open channel, dropped
\*     otherwise); and nothing else issues a request, answers, or changes
\*     the number of pending calls.
\* ------------------------------------------------------------------------
C39_EachSubmissionAnsweredOnce ==
    [][ /\ (note' = "test" /\ mode' = "normal" /\ bridge' # << >>)
              => /\ Len(bridge') = 1
                 /\ IF bridge'[1].apiBaseUrl /\ bridge'[1].bearer
                    THEN /\ http' = <<PingRequest(bridge'[1].text)>>
                         /\ inflight' = inflight + 1
                         /\ out' = << >>
                    ELSE /\ http' = << >>
                         /\ inflight' = inflight
                         /\ out' = <<FailureFrame>>
                         /\ allowNextResponse'
        /\ inflight' < inflight
              => /\ inflight' = inflight - 1
                 /\ http' = << >> /\ bridge' = << >>
                 /\ allowNextResponse'
                 /\ IF dataChannel = "open"
                    THEN Len(out') = 1 /\ IsAnswer(out'[1])
                    ELSE out' = << >>
        /\ (inflight' > inflight \/ http' # << >>)
              => (note' = "test" /\ mode' = "normal" /\ bridge' # << >>)
        /\ (\E i \in 1..Len(out') : IsAnswer(out'[i]))
              => (inflight' < inflight \/ (note' = "test" /\ bridge' # << >>))
      ]_vars

\* a third cycle has completed while the calls of two earlier cycles are
\* pending
C39_Witness ==
    /\ CycleCompleted
    /\ Submitted = <<"Go, now!">>
    /\ http = <<PingRequest("Go, now!")>>
    /\ inflight = 3

\* ------------------------------------------------------------------------
\* C33 (as stated) In the earlier variant, while the capture state is
\*     awaiting, a response.created carrying an id either consumes the
\*     allow-next-response token and is let through, or causes exactly one
\*     response.cancel for that id; and a response that no local
\*     instruction solicited is always cancelled.
\* ------------------------------------------------------------------------
C33_UnsolicitedResponsesAreCancelled ==
    [][ \A id \in ResponseIds \ {""}, solicitedResponse \in BOOLEAN :
          (capture.state = "awaiting" /\ EarlierResponseCreatedOf(id, solicitedResponse))
             => /\ \/ (allowNextResponse /\ ~allowNextResponse' /\ out' = << >>)
                   \/ out' = <<CancelFrame(id)>>
                /\ ~solicitedResponse => out' = <<CancelFrame(id)>>
      ]_vars

\* the part of C33 that the code keeps: the token is consumed or that very
\* id is cancelled
C33_TokenOrCancel ==
    [][ \A id \in ResponseIds \ {""}, solicitedResponse \in BOOLEAN :
          (capture.state = "awaiting" /\ EarlierResponseCreatedOf(id, solicitedResponse))
             => \/ (allowNextResponse /\ ~allowNextResponse' /\ out' = << >>)
                \/ (~allowNextResponse /\ out' = <<CancelFrame(id)>>
                      /\ currentResponseId' = << >>)
      ]_vars

====
